---- MODULE Spec2Model ----
(***************************************************************************)
(* Focus FM: the live session manager (GeminiLiveService), its speech      *)
(* playback scheduler (playBuffer) and the application callbacks wired to  *)
(* it in App.handleConnect.                                                *)
(*                                                                         *)
(* Time is counted in units of 100 ms: `now` is the wall clock, and the    *)
(* audio clock of an output context is the wall time elapsed since the     *)
(* context was created.  null is 0; the objects a connect attempt creates  *)
(* (its two audio contexts, media stream, session, script processor) are   *)
(* named by the number of the attempt, 1, 2, ...                           *)
(***************************************************************************)
EXTENDS Integers, Sequences, FiniteSets, TLC

VARIABLES
    \* GeminiLiveService fields
    inputAudioContext, outputAudioContext, nextStartTime, mediaStream,
    processor, source, sessionPromise, isMicMuted, duckingTimeout,
    elConfig, elClient, transcriptBuffer,
    \* connect() in progress: the await it is suspended at
    connectPc,
    \* browser and remote side
    now, attempts, ctxOrigin, openInputs, openOutputs, liveStreams, capturing,
    handlers,
    sessions, thenQueue, timeouts, timerSeq, scheduled, sent,
    \* handleMessage invocations suspended in `await this.fetchNews`, and
    \* playElevenLabsAudio invocations suspended in `await streamText`
    toolTasks, ttsRequests, ttsSeq, callSeq, received, invoked,
    \* what the callbacks last told the application
    amplitude, callState,
    \* the application: serviceRef.current (the number of the instance, 0 for
    \* none), the instance that made each connect attempt, the connection
    \* state shown, and the two intervals of setupLoops
    serviceRef, svcOf, connectionState, chimeInterval, phraseInterval,
    \* the fields of the instances serviceRef no longer points to
    retired,
    \* ids of the calls whose handler threw (caught and logged)
    threw,
    \* the texts streamText was called with, in call order
    flushed,
    \* the LoFiSynth of the application: its fields and the gain automation
    \* of its master gain node
    lofi,
    \* the volume and duck calls made on the LoFiSynth, each with the gain
    \* automation it left
    gainLog,
    \* the codec: one sample on its way through createPcmBlob and
    \* decodeAudioData
    pcm,
    \* the focus timer of the application
    timerState,
    \* the LoFiSynth with the external loop mode: its fields, and the
    \* browser's side of it
    hybrid,
    \* the sentences whose audio playBuffer was given, in the order given
    spoken,
    \* the timeouts handleMainButton has set: the presses made, the timeouts
    \* pending
    dialTimers,
    \* disconnect() was called and connect() has not been called since;
    \* the tool handlers that returned, with the session handle of the moment
    disconnected, returned,
    \* observation of the last step, and input budgets
    lastOp, events

vars == << inputAudioContext, outputAudioContext, nextStartTime, mediaStream,
           processor, source, sessionPromise, isMicMuted, duckingTimeout,
           elConfig, elClient, transcriptBuffer, connectPc,
           now, attempts, ctxOrigin, openInputs, openOutputs, liveStreams,
           capturing, handlers, sessions, thenQueue, timeouts, timerSeq,
           scheduled, sent,
           toolTasks, ttsRequests, ttsSeq, callSeq, received, invoked,
           amplitude, callState, serviceRef, svcOf, connectionState,
           chimeInterval, phraseInterval, retired, threw, flushed, lofi,
           gainLog, pcm, timerState, hybrid, spoken, dialTimers,
           disconnected, returned, lastOp, events >>

----------------------------------------------------------------------------
\* Bounds of the model

\* the wall clock stops advancing here
MaxClock == 3
\* calls, events and clock advances of the environment in one behaviour
MaxEvents == 4

\* buffer durations: 0.2 s, 0.5 s and 1.0 s
Durations == {2, 5, 10}

\* setTimeout(..., timeRemaining + 100): the 100 ms, in time units
DuckSlack == 1

NULL == 0

Max(a, b) == IF a >= b THEN a ELSE b

Min(a, b) == IF a <= b THEN a ELSE b

----------------------------------------------------------------------------
\* LoFiSynth: the master gain. Volumes are in hundredths, the gain in
\* ten-thousandths.

\* private baseVolume: number = 0.3, in tenths
baseVolume == 3

\* the duck factor, in tenths: this.isDucking ? 0.2 : 1.0
duckFactor(isDucking) == IF isDucking THEN 2 ELSE 10

\* variant of updateGain that leaves the duck factor out
updateGain_noDuck(l) ==
    [l EXCEPT !.gainTarget = baseVolume * l.userVolume * 10,
              !.ramps = @ + 1]

\* updateGain(rampTime): the scheduled values are cancelled and one ramp
\* to the target is started
updateGain(l) ==
    [l EXCEPT !.gainTarget = baseVolume * l.userVolume
                                 * duckFactor(l.isDucking),
              !.ramps = @ + 1]

\* Math.max(0, Math.min(1, vol))
clamp(vol) == IF vol < 0 THEN 0 ELSE IF vol > 100 THEN 100 ELSE vol

\* setMasterVolume(vol)
setMasterVolume(l, vol) == updateGain([l EXCEPT !.userVolume = clamp(vol)])

\* variant of duck without the early return
duck_always(l, active) == updateGain([l EXCEPT !.isDucking = active])

\* duck(active)
duck(l, active) ==
    IF l.isDucking = active THEN l
    ELSE updateGain([l EXCEPT !.isDucking = active])

\* what a call on the synth left behind
gainEntry(l, name, arg) ==
    [op |-> name, arg |-> arg, target |-> l.gainTarget, ramps |-> l.ramps,
     ducked |-> l.isDucking, volume |-> l.userVolume]

\* the call is made and logged
logged(s, l, name, arg) ==
    [s EXCEPT !.lofi = l, !.gainLog = Append(@, gainEntry(l, name, arg))]

\* new LoFiSynth(ctx): the field initialisers and the constructor, which
\* calls updateGain() once
\* (with the browser's side of it: the ids setTimeout has given, the
\* scheduler timers pending, the noise sources playing, the notes handed
\* to scheduleNote and the times they were given)
newLoFiSynth ==
    updateGain([isPlaying |-> FALSE, style |-> "lofi", transposeSteps |-> 0,
                userVolume |-> 100, isDucking |-> FALSE,
                gainTarget |-> 0, ramps |-> 0,
                nextNoteTime |-> 0, timerID |-> NULL,
                seq |-> 0, pending |-> {}, vinyl |-> 0, notes |-> 0,
                events |-> << >>])

----------------------------------------------------------------------------
\* LoFiSynth: the style. A text is a sequence of characters.

\* the upper-case letters that occur in the hints, with their lower case
UpperCase == {"R", "O", "C", "K", "H", "F", "P"}

lowerOf(c) ==
    CASE c = "R" -> "r" [] c = "O" -> "o" [] c = "C" -> "c"
      [] c = "K" -> "k" [] c = "H" -> "h" [] c = "F" -> "f"
      [] c = "P" -> "p" [] OTHER -> c

\* String.prototype.toLowerCase
toLowerCase(str) == [i \in 1..Len(str) |-> lowerOf(str[i])]

\* String.prototype.includes, for a search string that is not empty
includes(str, sub) ==
    \E i \in 1..(Len(str) - Len(sub) + 1) :
        SubSeq(str, i, i + Len(sub) - 1) = sub

\* variant of the chain of tests that looks for techno and house first
styleOf_technoFirst(s) ==
    CASE includes(s, << "t", "e", "c", "h", "n", "o" >>)
         \/ includes(s, << "h", "o", "u", "s", "e" >>) -> "techno"
      [] includes(s, << "r", "o", "c", "k" >>) -> "rock"
      [] includes(s, << "c", "l", "a", "s", "s", "i", "c", "a", "l" >>)
         \/ includes(s, << "p", "i", "a", "n", "o" >>) -> "classical"
      [] includes(s, << "a", "m", "b", "i", "e", "n", "t" >>)
         \/ includes(s, << "f", "o", "c", "u", "s" >>) -> "ambient"
      [] OTHER -> "lofi"

\* the if / else-if chain of setMusicStyle on the lower-cased text
styleOf(s) ==
    IF includes(s, << "r", "o", "c", "k" >>) THEN "rock"
    ELSE IF includes(s, << "t", "e", "c", "h", "n", "o" >>)
            \/ includes(s, << "h", "o", "u", "s", "e" >>)
    THEN "techno"
    ELSE IF includes(s, << "c", "l", "a", "s", "s", "i", "c", "a", "l" >>)
            \/ includes(s, << "p", "i", "a", "n", "o" >>)
    THEN "classical"
    ELSE IF includes(s, << "a", "m", "b", "i", "e", "n", "t" >>)
            \/ includes(s, << "f", "o", "c", "u", "s" >>)
    THEN "ambient"
    ELSE "lofi"

\* changeSong(): Math.floor(Math.random() * 12) - 5, r the floor
changeSong(l, r) == [l EXCEPT !.transposeSteps = r - 5]

\* setMusicStyle(style)
setMusicStyle(l, style, r) ==
    changeSong([l EXCEPT !.style = styleOf(toLowerCase(style))], r)

\* getNoteDuration(), in tenths of a second
getNoteDuration(l) ==
    CASE l.style = "techno" -> 4
      [] l.style = "rock" -> 10
      [] l.style = "classical" -> 15
      [] l.style = "ambient" -> 40
      [] OTHER -> 30

----------------------------------------------------------------------------
\* LoFiSynth: start, stop and the scheduler. Times are in tenths of a
\* second, as getNoteDuration.

\* private scheduleAheadTime = 0.1
scheduleAheadTime == 1

\* the gain stop() ramps to, 0.001, in ten-thousandths
nearSilence == 10

\* variant of the loop that moves the cursor on by the lofi duration
\* whatever the style
RECURSIVE scheduleNotes_lofiBeat(_, _)
scheduleNotes_lofiBeat(l, clock) ==
    IF l.nextNoteTime < clock + scheduleAheadTime
    THEN scheduleNotes_lofiBeat(
             [l EXCEPT !.notes = @ + 1,
                       !.events = Append(@, l.nextNoteTime),
                       !.nextNoteTime = @ + 30],
             clock)
    ELSE l

\* the while loop of scheduler(): scheduleNote at the cursor, the cursor
\* moves on by the note duration
RECURSIVE scheduleNotes(_, _)
scheduleNotes(l, clock) ==
    IF l.nextNoteTime < clock + scheduleAheadTime
    THEN scheduleNotes([l EXCEPT !.notes = @ + 1,
                                 !.events = Append(@, l.nextNoteTime),
                                 !.nextNoteTime = @ + getNoteDuration(l)],
                       clock)
    ELSE l

\* scheduler(): the loop, then this.timerID = window.setTimeout(...)
scheduler(l, clock) ==
    IF ~l.isPlaying THEN l
    ELSE [scheduleNotes(l, clock) EXCEPT !.seq = @ + 1,
                                         !.timerID = l.seq + 1,
                                         !.pending = @ \cup {l.seq + 1}]

\* startVinylCrackles(): one more looping noise source is started
startVinylCrackles(l) == [l EXCEPT !.vinyl = @ + 1]

\* variant of start without the early return
synthStart_again(l, clock) ==
    startVinylCrackles(scheduler([l EXCEPT !.isPlaying = TRUE,
                                           !.nextNoteTime = clock],
                                 clock))

\* start()
synthStart(l, clock) ==
    IF l.isPlaying THEN l
    ELSE startVinylCrackles(scheduler([l EXCEPT !.isPlaying = TRUE,
                                                !.nextNoteTime = clock],
                                      clock))

\* stop(): the timer is cleared and the gain ramps to 0.001
synthStop(l) ==
    [l EXCEPT !.isPlaying = FALSE,
              !.pending = IF l.timerID # NULL THEN @ \ {l.timerID} ELSE @,
              !.gainTarget = nearSilence,
              !.ramps = @ + 1]

\* the scheduler timer id fires
schedulerTimer(l, id, clock) ==
    scheduler([l EXCEPT !.pending = @ \ {id}], clock)

----------------------------------------------------------------------------
\* The LoFiSynth with the external loop mode (hybrid): its timers and
\* sources. Times are in tenths of a second.

\* new LoFiSynth(ctx): the field initialisers; with them the ids the
\* browser has given to timers and sources, the timers pending (each with
\* its callback), the loop sources and the noise sources playing, and the
\* notes handed to scheduleNote
newHybridSynth ==
    [isPlaying |-> FALSE, nextNoteTime |-> 0, bpm |-> 60,
     timerID |-> NULL, autoChangeTimeout |-> NULL, vinylSource |-> NULL,
     loopSource |-> NULL, activeLoopBuffer |-> NULL, isLoopMode |-> FALSE,
     transposeSteps |-> 0, gainTarget |-> baseVolume * 100 * 10,
     seq |-> 0, pending |-> {}, loops |-> {}, vinyls |-> {}, notes |-> 0]

\* window.clearTimeout(id)
clearTimer(h, id) == [h EXCEPT !.pending = {x \in @ : x.id # id}]

\* 60.0 / this.config.bpm, to the tenth of a second below
secondsPerBeat(h) == 600 \div h.bpm

\* the while loop of scheduler()
RECURSIVE hybridNotes(_, _)
hybridNotes(h, clock) ==
    IF h.nextNoteTime < clock + scheduleAheadTime
    THEN hybridNotes([h EXCEPT !.notes = @ + 1,
                               !.nextNoteTime = @ + secondsPerBeat(h)],
                     clock)
    ELSE h

\* scheduler()
hybridScheduler(h, clock) ==
    IF ~h.isPlaying \/ h.isLoopMode THEN h
    ELSE LET h1 == IF h.bpm <= 0 THEN [h EXCEPT !.bpm = 60] ELSE h
         IN  [hybridNotes(h1, clock) EXCEPT
                 !.seq = @ + 1,
                 !.timerID = h.seq + 1,
                 !.pending = @ \cup {[id |-> h.seq + 1,
                                      fn |-> "scheduler"]}]

\* scheduleAutoChange()
scheduleAutoChange(h) ==
    LET h1 == IF h.autoChangeTimeout # NULL
              THEN clearTimer(h, h.autoChangeTimeout) ELSE h
    IN  [h1 EXCEPT !.seq = @ + 1,
                   !.autoChangeTimeout = h.seq + 1,
                   !.pending = @ \cup {[id |-> h.seq + 1,
                                        fn |-> "changeSong"]}]

\* startVinylCrackles(), which returns at once if a source is held
hybridVinylCrackles(h) ==
    IF h.vinylSource # NULL THEN h
    ELSE [h EXCEPT !.seq = @ + 1, !.vinylSource = h.seq + 1,
                   !.vinyls = @ \cup {h.seq + 1}]

\* startLoopPlayback(buffer)
startLoopPlayback(h, buffer) ==
    IF ~h.isPlaying THEN h
    ELSE [h EXCEPT !.seq = @ + 1,
                   !.loopSource = h.seq + 1,
                   !.loops = (IF h.loopSource # NULL
                              THEN @ \ {h.loopSource} ELSE @)
                             \cup {h.seq + 1}]

\* start()
hybridStart(h, clock) ==
    IF h.isPlaying THEN h
    ELSE LET h1 == [h EXCEPT !.isPlaying = TRUE]
         IN  IF h1.isLoopMode /\ h1.activeLoopBuffer # NULL
             THEN startLoopPlayback(h1, h1.activeLoopBuffer)
             ELSE scheduleAutoChange(hybridVinylCrackles(
                      hybridScheduler([h1 EXCEPT !.nextNoteTime = clock],
                                      clock)))

\* stop(): both timers are cleared, the loop source and the noise source
\* are stopped and forgotten, the gain ramps to 0.001
hybridStop(h) ==
    LET h1 == [h EXCEPT !.isPlaying = FALSE]
        h2 == IF h1.timerID # NULL THEN clearTimer(h1, h1.timerID) ELSE h1
        h3 == IF h2.autoChangeTimeout # NULL
              THEN clearTimer(h2, h2.autoChangeTimeout) ELSE h2
    IN  [h3 EXCEPT
           !.loops = IF h3.loopSource # NULL THEN @ \ {h3.loopSource} ELSE @,
           !.loopSource = NULL,
           !.vinyls = IF h3.vinylSource # NULL
                      THEN @ \ {h3.vinylSource} ELSE @,
           !.vinylSource = NULL,
           !.gainTarget = nearSilence]

\* setExternalLoop(buffer)
setExternalLoop(h, buffer) ==
    LET h1 == [h EXCEPT !.isLoopMode = TRUE, !.activeLoopBuffer = buffer]
        h2 == IF h1.timerID # NULL
              THEN [clearTimer(h1, h1.timerID) EXCEPT !.timerID = NULL]
              ELSE h1
        h3 == IF h2.autoChangeTimeout # NULL
              THEN [clearTimer(h2, h2.autoChangeTimeout) EXCEPT
                       !.autoChangeTimeout = NULL]
              ELSE h2
    IN  startLoopPlayback(h3, buffer)

\* switchToInternalSynth()
switchToInternalSynth(h, clock) ==
    LET h1 == [h EXCEPT
                 !.isLoopMode = FALSE, !.activeLoopBuffer = NULL,
                 !.loops = IF h.loopSource # NULL THEN @ \ {h.loopSource}
                           ELSE @,
                 !.loopSource = NULL]
    IN  IF h1.isPlaying
        THEN scheduleAutoChange(
                 hybridScheduler([h1 EXCEPT !.nextNoteTime = clock], clock))
        ELSE h1

\* configure(params): bpm is the bpm of params, 0 if it has none; r is
\* the floor of Math.random() * 12
configure(h, bpm, r, clock) ==
    LET h1 == IF h.isLoopMode THEN switchToInternalSynth(h, clock) ELSE h
        h2 == [h1 EXCEPT !.bpm = IF bpm = 0 THEN @ ELSE bpm]
        h3 == IF h2.bpm < 30 THEN [h2 EXCEPT !.bpm = 60] ELSE h2
        h4 == IF h3.isPlaying /\ ~h3.isLoopMode
              THEN LET c == IF h3.timerID # NULL
                            THEN clearTimer(h3, h3.timerID) ELSE h3
                   IN  hybridScheduler(
                           [c EXCEPT !.nextNoteTime =
                                         clock + scheduleAheadTime], clock)
              ELSE h3
    IN  [h4 EXCEPT !.transposeSteps = r - 5]

\* changeSong(): r is the floor of Math.random() * 12, shift the bpm
\* shift, a whole number out of [-5, 5)
hybridChangeSong(h, r, shift) ==
    IF h.isLoopMode THEN h
    ELSE scheduleAutoChange(
             [h EXCEPT !.transposeSteps = r - 5,
                       !.bpm = Max(40, Min(120, h.bpm + shift))])

\* the pending timer t fires and runs its callback
hybridTimer(h, t, r, shift, clock) ==
    LET h1 == [h EXCEPT !.pending = @ \ {t}]
    IN  IF t.fn = "scheduler" THEN hybridScheduler(h1, clock)
        ELSE hybridChangeSong(h1, r, shift)

----------------------------------------------------------------------------
\* The PCM codec. A float sample is the number n / Grid; a decoded sample
\* is the number v / 32768.

\* samples are the multiples of 2^-16 (a Float32 holds them exactly)
Grid == 65536

\* the samples of a captured frame: all of [-1, 1], and some beyond
Samples ==
    (-Grid)..Grid
    \cup {-3 * Grid, -2 * Grid, -Grid - 1, Grid + 1, 2 * Grid, 3 * Grid}

\* variant of the clipping that lets every sample through
clip_none(n) == n

\* Math.max(-1, Math.min(1, float32Array[i]))
clip(n) == IF n < -Grid THEN -Grid ELSE IF n > Grid THEN Grid ELSE n

\* the integer part of (n / Grid) * k for n >= 0
scaled(n, k) == (n \div Grid) * k + ((n % Grid) * k) \div Grid

\* the store into an Int16Array: the fraction is dropped (towards zero)
\* and the integer is taken modulo 2^16 into [-32768, 32767]
ToInt16(x) == ((x + 32768) % 65536) - 32768

\* float32ToInt16, one sample: s < 0 ? s * 0x8000 : s * 0x7FFF
float32ToInt16(n) ==
    LET s == clip(n)
    IN  IF s < 0 THEN ToInt16(-scaled(-s, 32768))
        ELSE ToInt16(scaled(s, 32767))

\* int16.buffer as bytes (little-endian two's complement), which is what
\* arrayBufferToBase64 and base64ToUint8Array carry
bytesOf(v) ==
    LET u == (v + 65536) % 65536 IN << u % 256, u \div 256 >>

\* new Int16Array(data.buffer), one element
int16Of(bytes) == ToInt16(bytes[1] + 256 * bytes[2])

\* createPcmBlob(data), one sample
createPcmBlob(n) == bytesOf(float32ToInt16(n))

\* decodeAudioData, one sample: dataInt16[i] / 32768.0, as the numerator
decodeAudioData(bytes) == int16Of(bytes)

\* no frame captured yet
idlePcm ==
    [stage |-> "idle", sample |-> 0, int16 |-> 0, data |-> << 0, 0 >>,
     decoded |-> 0]

----------------------------------------------------------------------------
\* The focus timer of the application, in seconds

\* useState<TimerState>({ isActive: false, timeLeft: 0, duration: 0, ... })
newTimerState ==
    [isActive |-> FALSE, timeLeft |-> 0, duration |-> 0, mode |-> "focus"]

\* variant of the default that applies to a missing argument only
minutesOf_missingOnly(args) ==
    IF args.hasMinutes THEN args.minutes ELSE 25

\* args.minutes || 25: a missing argument and 0 both give 25
minutesOf(args) ==
    IF args.hasMinutes /\ args.minutes # 0 THEN args.minutes ELSE 25

\* onToolCall('startTimer', args): setTimerState({ isActive: true, ... })
startTimer(ts, args) ==
    [isActive |-> TRUE, duration |-> minutesOf(args) * 60,
     timeLeft |-> minutesOf(args) * 60, mode |-> "focus"]

\* onToolCall('stopTimer'), and the Pause button of the Timer
stopTimer(ts) == [ts EXCEPT !.isActive = FALSE]

\* the effect of the Timer component after a change of the timer state:
\* an active timer at 0 is finished
timerEffect(ts) ==
    IF ts.timeLeft = 0 /\ ts.isActive THEN [ts EXCEPT !.isActive = FALSE]
    ELSE ts

\* the interval of the Timer component is running
counting(ts) == ts.isActive /\ ts.timeLeft > 0

\* the callback of the interval, once a second
timerSecond(ts) == timerEffect([ts EXCEPT !.timeLeft = @ - 1])

\* what the application does for a tool call before it returns
applyTool(s, fc) ==
    CASE fc.name = "startTimer" ->
             [s EXCEPT !.timerState =
                  timerEffect(startTimer(@, [hasMinutes |-> TRUE,
                                             minutes |-> 25]))]
      [] fc.name = "stopTimer" ->
             [s EXCEPT !.timerState = timerEffect(stopTimer(@))]
      [] OTHER -> s

----------------------------------------------------------------------------
\* The state as one record, so that a handler is a function from state to
\* state and a sequence of statements is a composition.

Cur ==
    [ inputAudioContext |-> inputAudioContext,
      outputAudioContext |-> outputAudioContext,
      nextStartTime |-> nextStartTime, mediaStream |-> mediaStream,
      processor |-> processor, source |-> source,
      sessionPromise |-> sessionPromise, isMicMuted |-> isMicMuted,
      duckingTimeout |-> duckingTimeout, elConfig |-> elConfig,
      elClient |-> elClient, transcriptBuffer |-> transcriptBuffer,
      connectPc |-> connectPc, now |-> now, attempts |-> attempts,
      ctxOrigin |-> ctxOrigin, openInputs |-> openInputs,
      openOutputs |-> openOutputs,
      liveStreams |-> liveStreams, capturing |-> capturing,
      handlers |-> handlers, sessions |-> sessions, thenQueue |-> thenQueue,
      timeouts |-> timeouts, timerSeq |-> timerSeq, scheduled |-> scheduled,
      sent |-> sent, toolTasks |-> toolTasks, ttsRequests |-> ttsRequests,
      ttsSeq |-> ttsSeq,
      callSeq |-> callSeq, received |-> received, invoked |-> invoked,
      amplitude |-> amplitude, callState |-> callState,
      serviceRef |-> serviceRef, svcOf |-> svcOf,
      connectionState |-> connectionState,
      chimeInterval |-> chimeInterval, phraseInterval |-> phraseInterval,
      retired |-> retired, threw |-> threw, flushed |-> flushed,
      lofi |-> lofi, gainLog |-> gainLog,
      pcm |-> pcm,
      timerState |-> timerState,
      hybrid |-> hybrid,
      spoken |-> spoken,
      dialTimers |-> dialTimers,
      disconnected |-> disconnected, returned |-> returned,
      lastOp |-> lastOp, events |-> events ]

Commit(s) ==
    /\ inputAudioContext' = s.inputAudioContext
    /\ outputAudioContext' = s.outputAudioContext
    /\ nextStartTime' = s.nextStartTime
    /\ mediaStream' = s.mediaStream
    /\ processor' = s.processor
    /\ source' = s.source
    /\ sessionPromise' = s.sessionPromise
    /\ isMicMuted' = s.isMicMuted
    /\ duckingTimeout' = s.duckingTimeout
    /\ elConfig' = s.elConfig
    /\ elClient' = s.elClient
    /\ transcriptBuffer' = s.transcriptBuffer
    /\ connectPc' = s.connectPc
    /\ now' = s.now
    /\ attempts' = s.attempts
    /\ ctxOrigin' = s.ctxOrigin
    /\ openInputs' = s.openInputs
    /\ openOutputs' = s.openOutputs
    /\ liveStreams' = s.liveStreams
    /\ capturing' = s.capturing
    /\ handlers' = s.handlers
    /\ sessions' = s.sessions
    /\ thenQueue' = s.thenQueue
    /\ timeouts' = s.timeouts
    /\ timerSeq' = s.timerSeq
    /\ scheduled' = s.scheduled
    /\ sent' = s.sent
    /\ toolTasks' = s.toolTasks
    /\ ttsRequests' = s.ttsRequests
    /\ ttsSeq' = s.ttsSeq
    /\ callSeq' = s.callSeq
    /\ received' = s.received
    /\ invoked' = s.invoked
    /\ amplitude' = s.amplitude
    /\ callState' = s.callState
    /\ serviceRef' = s.serviceRef
    /\ svcOf' = s.svcOf
    /\ connectionState' = s.connectionState
    /\ chimeInterval' = s.chimeInterval
    /\ phraseInterval' = s.phraseInterval
    /\ retired' = s.retired
    /\ threw' = s.threw
    /\ flushed' = s.flushed
    /\ lofi' = s.lofi
    /\ gainLog' = s.gainLog
    /\ pcm' = s.pcm
    /\ timerState' = s.timerState
    /\ hybrid' = s.hybrid
    /\ spoken' = s.spoken
    /\ dialTimers' = s.dialTimers
    /\ disconnected' = s.disconnected
    /\ returned' = s.returned
    /\ lastOp' = s.lastOp
    /\ events' = s.events

\* new GeminiLiveService(): the field initialisers, nothing connected
Init ==
    /\ inputAudioContext = NULL
    /\ outputAudioContext = NULL
    /\ nextStartTime = 0
    /\ mediaStream = NULL
    /\ processor = NULL
    /\ source = NULL
    /\ sessionPromise = NULL
    /\ isMicMuted = TRUE
    /\ duckingTimeout = NULL
    /\ elConfig = FALSE
    /\ elClient = NULL
    /\ transcriptBuffer = << >>
    /\ connectPc = "idle"
    /\ now = 0
    /\ attempts = 0
    /\ ctxOrigin = 0
    /\ openInputs = {}
    /\ openOutputs = {}
    /\ liveStreams = {}
    /\ capturing = {}
    /\ handlers = {}
    /\ sessions = << >>
    /\ thenQueue = << >>
    /\ timeouts = {}
    /\ timerSeq = 0
    /\ scheduled = << >>
    /\ sent = << >>
    /\ toolTasks = {}
    /\ ttsRequests = {}
    /\ ttsSeq = 0
    /\ callSeq = 0
    /\ received = {}
    /\ invoked = << >>
    /\ amplitude = 0
    /\ callState = "IDLE"
    /\ serviceRef = 0
    /\ svcOf = << >>
    /\ connectionState = "DISCONNECTED"
    /\ chimeInterval = FALSE
    /\ phraseInterval = FALSE
    /\ retired = << >>
    /\ threw = {}
    /\ flushed = << >>
    /\ lofi = newLoFiSynth
    /\ gainLog = << gainEntry(newLoFiSynth, "new", 0) >>
    /\ pcm = idlePcm
    /\ timerState = newTimerState
    /\ hybrid = newHybridSynth
    /\ spoken = << >>
    /\ dialTimers = [seq |-> 0, pending |-> {}]
    /\ disconnected = FALSE
    /\ returned = {}
    /\ lastOp = [op |-> "init", arg |-> 0]
    /\ events = 0

----------------------------------------------------------------------------
\* Helpers


\* outputAudioContext.currentTime: the audio clock of the output context
currentTime(s) == s.now - s.ctxOrigin

Op(s, name, arg) == [s EXCEPT !.lastOp = [op |-> name, arg |-> arg]]

\* one more input from the environment
Spend(s) == [s EXCEPT !.events = @ + 1]

CanSpend == events < MaxEvents

----------------------------------------------------------------------------
\* The callbacks App.handleConnect wires to the service

\* service.onAudioData = (amp) => setAmplitude(amp)
onAudioData(s, amp) == [s EXCEPT !.amplitude = amp]

\* variant of setMicMuted in which muting drops the session handle
setMicMuted_dropsHandle(s, muted) ==
    LET s1 == [s EXCEPT !.isMicMuted = muted]
    IN  IF muted
        THEN [s1 EXCEPT !.amplitude = 0, !.sessionPromise = NULL]
        ELSE s1

\* setMicMuted(muted)
setMicMuted(s, muted) ==
    LET s1 == [s EXCEPT !.isMicMuted = muted]
    IN  IF muted THEN onAudioData(s1, 0) ELSE s1

\* service.onSpeakerActivity = (active, source) => ...
onSpeakerActivity(s, active, src) ==
    IF src = "ai"
    THEN IF active
         THEN setMicMuted([s EXCEPT !.callState = "AI_SPEAKING"], TRUE)
         ELSE [s EXCEPT !.callState = "REPLY_READY"]
    ELSE s

----------------------------------------------------------------------------
\* Transmission: this.sessionPromise?.then(session => session.send...(x)).
\* On a resolved promise the callback runs at once; on a pending one it is
\* kept until the promise settles; on a rejected one it never runs.

transmit(s, x) ==
    IF s.sessionPromise = NULL THEN s
    ELSE LET p == s.sessionPromise
             m == [sess |-> p, kind |-> x.kind, id |-> x.id, name |-> x.name]
         IN  CASE s.sessions[p] = "open" -> [s EXCEPT !.sent = Append(@, m)]
               [] s.sessions[p] = "pending" ->
                      [s EXCEPT !.thenQueue = Append(@, m)]
               [] OTHER -> s

\* (the log of what was sent keeps where a message went, its kind and the
\* id and name it carries)

\* sendText(text)
sendText(s, text) ==
    IF s.sessionPromise = NULL THEN s
    ELSE transmit(s, [kind |-> "text", id |-> 0, name |-> text])

\* triggerRing()
triggerRing(s) ==
    IF s.sessionPromise # NULL THEN sendText(s, "RING") ELSE s

\* startCall()
startCall(s) == setMicMuted(triggerRing(s), FALSE)

\* endCall()
endCall(s) == setMicMuted(s, TRUE)

----------------------------------------------------------------------------
\* Speech playback scheduler

\* window.clearTimeout(id)
\* variant of clearTimeout that cancels nothing
clearTimeout_keeps(s, id) == s

\* window.clearTimeout(id)
clearTimeout(s, id) ==
    [s EXCEPT !.timeouts = {t \in @ : t.id # id}]

\* window.setTimeout(speaking stopped, delay): returns the new timer's id
setTimeout(s, delay) ==
    [s EXCEPT !.timerSeq = @ + 1,
              !.timeouts = @ \cup {[id |-> s.timerSeq + 1,
                                    due |-> s.now + delay,
                                    svc |-> s.serviceRef]}]

\* variants of the start time: the clock alone, the cursor alone
startTimeOf_clock(s) == currentTime(s)

startTimeOf_cursor(s) == s.nextStartTime

\* this.nextStartTime = Math.max(currentTime, this.nextStartTime)
startTimeOf(s) == Max(currentTime(s), s.nextStartTime)

\* variant of the cursor advance: one time unit of gap after each buffer
cursorAfter_gap(start, dur) == start + dur + 1

\* the cursor after the buffer: this.nextStartTime += audioBuffer.duration
cursorAfter(start, dur) == start + dur

\* playBuffer(audioBuffer)
playBuffer(s, dur) ==
    IF s.outputAudioContext = NULL THEN s
    ELSE LET s1 == onSpeakerActivity(s, TRUE, "ai")
             start == startTimeOf(s1)
             s2 == [s1 EXCEPT
                      !.scheduled = Append(@, [ctx |-> s1.outputAudioContext,
                                               start |-> start, dur |-> dur,
                                               at |-> currentTime(s1),
                                               wall |-> s1.now]),
                      !.nextStartTime = cursorAfter(start, dur)]
             s3 == IF s2.duckingTimeout # NULL
                   THEN clearTimeout(s2, s2.duckingTimeout) ELSE s2
             timeRemaining == s3.nextStartTime - currentTime(s3)
             s4 == setTimeout(s3, timeRemaining + DuckSlack)
         IN  [s4 EXCEPT !.duckingTimeout = s4.timerSeq]

\* scheduleAudioChunk(pcmData): decodeAudioData has no await of its own, so
\* the buffer is played in the microtask that follows
scheduleAudioChunk(s, dur) ==
    IF s.outputAudioContext = NULL THEN s ELSE playBuffer(s, dur)

----------------------------------------------------------------------------
\* Capture

\* startAudioInput(), called from onopen of session k
startAudioInput(s, k) ==
    IF s.inputAudioContext = NULL \/ s.mediaStream = NULL
          \/ s.sessionPromise = NULL
    THEN s
    ELSE [s EXCEPT !.source = k, !.processor = k,
                   !.handlers = @ \cup {k},
                   !.capturing = @ \cup {k}]

\* variant of the frame handler that does not look at the mute flag
onaudioprocess_ungated(s, amp) ==
    transmit(onAudioData(s, amp), [kind |-> "media", id |-> 0, name |-> "pcm"])

\* processor.onaudioprocess = (e) => ...; amp is the mean absolute
\* amplitude of the frame: 0 silent, 1 at most 0.01, 2 above 0.01
onaudioprocess(s, amp) ==
    IF ~s.isMicMuted
    THEN LET s1 == onAudioData(s, amp)
             s2 == IF amp > 1 THEN onSpeakerActivity(s1, TRUE, "user")
                   ELSE s1
         IN  transmit(s2, [kind |-> "media", id |-> 0, name |-> "pcm"])
    ELSE onAudioData(s, 0)

----------------------------------------------------------------------------
\* disconnect()

\* variant of disconnect that releases the resources and clears only the
\* session handle
disconnect_handleOnly(s) ==
    [s EXCEPT
       !.capturing = IF s.processor # NULL THEN @ \ {s.processor} ELSE @,
       !.liveStreams = IF s.mediaStream # NULL THEN @ \ {s.mediaStream} ELSE @,
       !.openInputs = IF s.inputAudioContext # NULL
                      THEN @ \ {s.inputAudioContext} ELSE @,
       !.openOutputs = IF s.outputAudioContext # NULL
                       THEN @ \ {s.outputAudioContext} ELSE @,
       !.sessionPromise = NULL]

disconnect(s) ==
    [s EXCEPT
       !.capturing = IF s.processor # NULL THEN @ \ {s.processor} ELSE @,
       !.liveStreams = IF s.mediaStream # NULL THEN @ \ {s.mediaStream} ELSE @,
       !.openInputs = IF s.inputAudioContext # NULL
                      THEN @ \ {s.inputAudioContext} ELSE @,
       !.openOutputs = IF s.outputAudioContext # NULL
                       THEN @ \ {s.outputAudioContext} ELSE @,
       !.sessionPromise = NULL,
       !.inputAudioContext = NULL,
       !.outputAudioContext = NULL,
       !.mediaStream = NULL,
       !.processor = NULL,
       !.source = NULL,
       !.elClient = NULL]

----------------------------------------------------------------------------
\* connect(locationInfo, elConfig), one step per await

\* up to `await getUserMedia`: the configuration, the two contexts, the
\* TTS client
connectStart(s, cfg) ==
    LET k == s.attempts + 1
        s1 == [s EXCEPT !.attempts = k,
                        !.elConfig = cfg,
                        !.inputAudioContext = k,
                        !.outputAudioContext = k,
                        !.openInputs = @ \cup {k},
                        !.openOutputs = @ \cup {k},
                        !.ctxOrigin = s.now,
                        !.sessions = Append(@, "none"),
                        !.svcOf = Append(@, s.serviceRef),
                        !.connectPc = "mic"]
    IN  IF cfg THEN [s1 EXCEPT !.elClient = k] ELSE s1

\* getUserMedia resolved: the stream is kept and the session is requested
micGranted(s) ==
    LET k == s.attempts
    IN  [s EXCEPT !.mediaStream = k,
                  !.liveStreams = @ \cup {k},
                  !.sessionPromise = k,
                  !.sessions[k] = "pending",
                  !.connectPc = "session"]

\* setupLoops(): both intervals are (re)armed
setupLoops(s) == [s EXCEPT !.chimeInterval = TRUE, !.phraseInterval = TRUE]

\* handleConnect after `await service.connect(...)` returned; an attempt
\* made on the bare manager (instance 0) has no continuation
connectResolved(s) ==
    IF s.svcOf[s.attempts] = 0 THEN s
    ELSE setupLoops([s EXCEPT !.connectionState = "CONNECTED"])

\* handleConnect when `await service.connect(...)` threw: the catch branch
connectRejected(s) ==
    IF s.svcOf[s.attempts] = 0 THEN s
    ELSE [s EXCEPT !.connectionState = "ERROR"]

\* variant of micDenied in which connect reports the denial and returns
micDenied_returns(s) == connectResolved([s EXCEPT !.connectPc = "idle"])

\* getUserMedia rejected: connect throws "Microphone access denied..."
micDenied(s) == connectRejected([s EXCEPT !.connectPc = "idle"])

\* the callbacks kept on promise k run, in order
flushThen(s, k) ==
    [s EXCEPT !.sent = @ \o SelectSeq(s.thenQueue, LAMBDA m : m.sess = k),
              !.thenQueue = SelectSeq(@, LAMBDA m : m.sess # k)]

\* session k opens: onopen runs startAudioInput, the promise resolves and
\* `await this.sessionPromise` returns
sessionOpen(s, k) ==
    LET s1 == [s EXCEPT !.sessions[k] = "open"]
        s2 == startAudioInput(s1, k)
        s3 == flushThen(s2, k)
    IN  connectResolved([s3 EXCEPT !.connectPc = "idle"])

\* session k fails to open: the promise rejects and connect throws
sessionFail(s, k) ==
    connectRejected([s EXCEPT !.sessions[k] = "failed",
                              !.thenQueue = SelectSeq(@, LAMBDA m : m.sess # k),
                              !.connectPc = "idle"])

\* public onError = null: the handleConnect of the application assigns
\* onSpeakerActivity and onToolCall to a new service, and never onError
onError == NULL

\* if (this.onError) this.onError(new Error(...)); a handler, where one is
\* assigned, shows the ERROR state
reportError(s) ==
    IF onError = NULL THEN s ELSE [s EXCEPT !.connectionState = "ERROR"]

\* onerror of session k: the transport failed
sessionError(s, k) == reportError([s EXCEPT !.sessions[k] = "closed"])

\* session k opens and startAudioInput throws while building the capture
\* graph: onopen catches it and reports it, the promise still resolves
sessionOpenNoAudio(s, k) ==
    LET s1 == reportError([s EXCEPT !.sessions[k] = "open"])
        s2 == flushThen(s1, k)
    IN  connectResolved([s2 EXCEPT !.connectPc = "idle"])

----------------------------------------------------------------------------
\* Transcript text, as a sequence of characters

Terminal == {".", "!", "?"}

RECURSIVE trimEnd(_)
trimEnd(str) ==
    IF str # << >> /\ str[Len(str)] = " "
    THEN trimEnd(SubSeq(str, 1, Len(str) - 1)) ELSE str

RECURSIVE trimStart(_)
trimStart(str) ==
    IF str # << >> /\ Head(str) = " " THEN trimStart(Tail(str)) ELSE str

\* variant of trim that leaves the string as it is
trim_none(str) == str

trim(str) == trimStart(trimEnd(str))

\* /[.!?]$/.test(str)
endsTerminal(str) == str # << >> /\ str[Len(str)] \in Terminal

\* playElevenLabsAudio(text), up to `await streamText`; streamText returns
\* null at once for blank text
playElevenLabsAudio(s, text) ==
    IF s.elClient = NULL THEN s
    ELSE LET s1 == [onSpeakerActivity(s, TRUE, "ai") EXCEPT
                        !.flushed = Append(@, text)]
         IN  IF trim(text) = << >>
             THEN onSpeakerActivity(s1, FALSE, "ai")
             ELSE [s1 EXCEPT !.ttsSeq = @ + 1,
                             !.ttsRequests = @ \cup
                                 {[seq |-> s1.ttsSeq + 1,
                                   client |-> s1.elClient,
                                   svc |-> s1.serviceRef]}]

\* what the request of streamText can meet: a good response that decodes,
\* a response that is not OK, a rejected fetch, bytes that do not decode
TtsOutcomes == {"ok", "notOk", "network", "decode"}

\* variant of streamText that does not look at response.ok
streamText_anyStatus(outcome, dur) ==
    IF outcome \in {"ok", "notOk"} THEN dur ELSE 0

\* streamText(text) for a text that is not blank: the duration of the
\* buffer decoded, 0 for null
streamText(outcome, dur) == IF outcome = "ok" THEN dur ELSE 0

\* the rest of playElevenLabsAudio: dur = 0 is the null result
ttsDone(s, dur) ==
    IF dur # 0 THEN playBuffer(s, dur)
    ELSE onSpeakerActivity(s, FALSE, "ai")

\* variant of the bridge branch that plays the native audio as well
bridgeText_withAudio(s, msg) ==
    IF msg.audio # 0 /\ s.outputAudioContext # NULL
    THEN scheduleAudioChunk(s, msg.audio)
    ELSE s

\* variant of the bridge branch that assigns the fragment to the buffer
\* (= for +=)
bridgeText_overwrites(s, msg) ==
    LET s1 == IF msg.text # << >>
              THEN IF endsTerminal(trim(msg.text))
                   THEN playElevenLabsAudio(
                            [s EXCEPT !.transcriptBuffer = << >>], msg.text)
                   ELSE [s EXCEPT !.transcriptBuffer = msg.text]
              ELSE s
    IN  IF msg.turnComplete /\ s1.transcriptBuffer # << >>
        THEN playElevenLabsAudio(
                 [s1 EXCEPT !.transcriptBuffer = << >>], s1.transcriptBuffer)
        ELSE s1

\* handleMessage, the bridge branch
bridgeText(s, msg) ==
    LET s1 == IF msg.text # << >>
              THEN LET buf == s.transcriptBuffer \o msg.text
                   IN  IF endsTerminal(trim(buf))
                       THEN playElevenLabsAudio(
                                [s EXCEPT !.transcriptBuffer = << >>], buf)
                       ELSE [s EXCEPT !.transcriptBuffer = buf]
              ELSE s
    IN  IF msg.turnComplete /\ s1.transcriptBuffer # << >>
        THEN playElevenLabsAudio(
                 [s1 EXCEPT !.transcriptBuffer = << >>], s1.transcriptBuffer)
        ELSE s1

----------------------------------------------------------------------------
\* Tool calls

\* the handlers of App.onToolCall that read a field of args
ReadsArgs == {"startTimer", "setMusicStyle"}

\* variant of the tool result that loses the id of the call
toolResult_noId(fc, result) ==
    [kind |-> "tool", id |-> 0, name |-> fc.name, result |-> result]

\* the tool result of call fc: response: { result: result || "OK" }
toolResult(fc, result) ==
    [kind |-> "tool", id |-> fc.id, name |-> fc.name,
     result |-> IF result = "" THEN "OK" ELSE result]

\* the handler of call fc returned a value: the result is handed to the
\* session behind the handle
answer(s, fc, result) ==
    transmit([s EXCEPT !.returned = @ \cup
                  {[id |-> fc.id, handle |-> s.sessionPromise,
                    open |-> s.sessionPromise # NULL /\
                             s.sessions[s.sessionPromise] = "open"]}],
             toolResult(fc, result))

\* variant of the catch that reports the failure to the session
caught_replies(s, fc) ==
    transmit([s EXCEPT !.threw = @ \cup {fc.id}], toolResult(fc, "error"))

\* the catch of the loop body: console.error, nothing is sent
caught(s, fc) == [s EXCEPT !.threw = @ \cup {fc.id}]

\* what generateContent can do: answer with text, answer without text,
\* reject
NewsOutcomes == {"text", "empty", "rejected"}

\* variant of fetchNews that lets the rejection through
fetchNews_propagates(outcome) ==
    CASE outcome = "text" -> "headlines"
      [] outcome = "empty" -> "No news found at the moment."
      [] OTHER -> "throw"

\* fetchNews(topic), by the outcome of generateContent
fetchNews(outcome) ==
    CASE outcome = "text" -> "headlines"
      [] outcome = "empty" -> "No news found at the moment."
      [] OTHER -> "I couldn't grab the news wire right now."

\* the value App.onToolCall resolves with for a call it knows
onToolCall(fc) ==
    IF fc.name \in {"startTimer", "stopTimer", "setMusicStyle",
                    "stopMusic", "addTask"}
    THEN "success: true" ELSE "success: false"

\* the for loop of handleMessage from its current call on, up to the next
\* await that suspends it (fetchNews); a handler of the application is an
\* async function without an await, so its result follows in a microtask
RECURSIVE runCalls(_, _)
runCalls(s, calls) ==
    IF calls = << >> THEN s
    ELSE LET fc == Head(calls)
         IN  IF fc.name = "getNews"
             THEN IF ~fc.hasArgs
                  THEN runCalls(caught(s, fc), Tail(calls))
                  ELSE [s EXCEPT !.invoked =
                                     Append(@, [id |-> fc.id,
                                                by |-> "fetchNews"]),
                                 !.toolTasks = @ \cup
                                     {[fc |-> fc, rest |-> Tail(calls),
                                       svc |-> s.serviceRef]}]
             ELSE LET s1 == [s EXCEPT !.invoked =
                                          Append(@, [id |-> fc.id,
                                                     by |-> "onToolCall"])]
                  IN  IF fc.name \in ReadsArgs /\ ~fc.hasArgs
                      THEN runCalls(caught(s1, fc), Tail(calls))
                      ELSE runCalls(answer(applyTool(s1, fc), fc,
                                           onToolCall(fc)),
                                    Tail(calls))

\* `await this.fetchNews(...)` settles and the loop goes on
toolDone(s, task, outcome) ==
    LET s1 == [s EXCEPT !.toolTasks = @ \ {task}]
        result == fetchNews(outcome)
    IN  runCalls(IF result = "throw" THEN caught(s1, task.fc)
                 ELSE answer(s1, task.fc, result),
                 task.rest)

\* the calls of a message, with the ids the remote side gave them
RECURSIVE withIds(_, _)
withIds(calls, n) ==
    IF calls = << >> THEN << >>
    ELSE << [id |-> n + 1, name |-> Head(calls).name,
             hasArgs |-> Head(calls).hasArgs] >>
         \o withIds(Tail(calls), n + 1)

\* handleMessage(message)
handleMessage(s, msg) ==
    LET s1 == IF s.elConfig /\ s.elClient # NULL
              THEN bridgeText(s, msg)
              ELSE IF msg.audio # 0 /\ s.outputAudioContext # NULL
                   THEN scheduleAudioChunk(s, msg.audio)
                   ELSE s
        fcs == withIds(msg.calls, s.callSeq)
        s2 == [s1 EXCEPT !.callSeq = @ + Len(fcs),
                         !.received = @ \cup
                             {[id |-> fcs[i].id, name |-> fcs[i].name] :
                                  i \in 1..Len(fcs)}]
    IN  runCalls(s2, fcs)

----------------------------------------------------------------------------
\* Inputs

\* mean absolute amplitude of a captured frame: silent, faint (at most
\* 0.01), loud
Amplitudes == {0, 1, 2}

TextChunks == { <<"a">>, <<"a", ".">>, <<" ">>, <<"?", " ">> }

ToolCalls ==
    { [name |-> "startTimer", hasArgs |-> TRUE],
      [name |-> "stopTimer", hasArgs |-> FALSE],
      [name |-> "getNews", hasArgs |-> TRUE] }

EmptyMsg ==
    [audio |-> 0, text |-> << >>, turnComplete |-> FALSE, calls |-> << >>]

\* audio chunks, transcript fragments and the end-of-turn marker
SpeechMsgs ==
    {[EmptyMsg EXCEPT !.audio = d] : d \in Durations}
    \cup {[EmptyMsg EXCEPT !.text = c] : c \in TextChunks}
    \cup {[EmptyMsg EXCEPT !.turnComplete = TRUE]}

AnsweredCalls == {x \in ToolCalls : x.name # "startTimer"}

\* messages that carry one tool call, or two of which each is answered at
\* once (stopTimer) or after a fetch (getNews)
ToolMsgs ==
    {[EmptyMsg EXCEPT !.calls = << c >>] : c \in ToolCalls}
    \cup {[EmptyMsg EXCEPT !.calls = << p[1], p[2] >>] :
             p \in {q \in AnsweredCalls \X AnsweredCalls : q[1] # q[2]}}

\* calls that arrive without args: startTimer reads args.minutes and
\* getNews reads args.topic
ThrowingCalls ==
    { [name |-> "startTimer", hasArgs |-> FALSE],
      [name |-> "getNews", hasArgs |-> FALSE] }

\* messages in which a call without args stands alone, or before or after
\* a call that is answered (stopTimer at once, getNews after its lookup)
FaultyMsgs ==
    {[EmptyMsg EXCEPT !.calls = << c >>] : c \in ThrowingCalls}
    \cup {[EmptyMsg EXCEPT !.calls = << c, d >>] :
             c \in ThrowingCalls, d \in AnsweredCalls}
    \cup {[EmptyMsg EXCEPT !.calls = << d, c >>] :
             c \in ThrowingCalls, d \in AnsweredCalls}

Messages == SpeechMsgs \cup ToolMsgs \cup FaultyMsgs

\* arguments of setMusicStyle: "Rock", "hard ROCK techno", "House",
\* "techno", "Classical piano", "piano focus", "ambient", "deep Focus",
\* "banana", "" and "lofi"
HintRock == << "R", "o", "c", "k" >>

HintRockTechno ==
    << "h", "a", "r", "d", " ", "R", "O", "C", "K", " ", "t", "e", "c", "h",
    "n", "o" >>

HintHouse == << "H", "o", "u", "s", "e" >>

HintTechno == << "t", "e", "c", "h", "n", "o" >>

HintClassicalPiano ==
    << "C", "l", "a", "s", "s", "i", "c", "a", "l", " ", "p", "i", "a", "n",
    "o" >>

HintPianoFocus == << "p", "i", "a", "n", "o", " ", "f", "o", "c", "u", "s" >>

HintAmbient == << "a", "m", "b", "i", "e", "n", "t" >>

HintDeepFocus == << "d", "e", "e", "p", " ", "F", "o", "c", "u", "s" >>

HintBanana == << "b", "a", "n", "a", "n", "a" >>

HintEmpty == << >>

HintLofi == << "l", "o", "f", "i" >>

Hints ==
    {HintRock, HintRockTechno, HintHouse, HintTechno, HintClassicalPiano,
     HintPianoFocus, HintAmbient, HintDeepFocus, HintBanana, HintEmpty,
     HintLofi}

\* Math.floor(Math.random() * 12): the least, a middle and the greatest
RandomFloors == {0, 5, 11}

\* arguments of setMasterVolume, in hundredths: below, inside and above
\* the range
Volumes == {-50, 0, 35, 70, 100, 150}

OpenSessions == {k \in 1..Len(sessions) : sessions[k] = "open"}
PendingSessions == {k \in 1..Len(sessions) : sessions[k] = "pending"}

----------------------------------------------------------------------------
\* The application and its manager instances

\* the instance fields of GeminiLiveService
ManagerFields ==
    {"inputAudioContext", "outputAudioContext", "nextStartTime",
     "mediaStream", "processor", "source", "sessionPromise", "isMicMuted",
     "duckingTimeout", "elConfig", "elClient", "transcriptBuffer"}

\* new GeminiLiveService(): the field initialisers
newService ==
    [inputAudioContext |-> NULL, outputAudioContext |-> NULL,
     nextStartTime |-> 0, mediaStream |-> NULL, processor |-> NULL,
     source |-> NULL, sessionPromise |-> NULL, isMicMuted |-> TRUE,
     duckingTimeout |-> NULL, elConfig |-> FALSE, elClient |-> NULL,
     transcriptBuffer |-> << >>]

fieldsOf(s) == [f \in ManagerFields |-> s[f]]

withFields(s, m) ==
    [f \in DOMAIN s |-> IF f \in ManagerFields THEN m[f] ELSE s[f]]

\* a callback that belongs to instance i runs with `this` and the closure's
\* `service` bound to i: on the current instance directly, on a replaced
\* one against the fields it was left with
bindThis(s, i) ==
    IF i = s.serviceRef THEN s
    ELSE [withFields(s, s.retired[i]) EXCEPT !.serviceRef = i]

\* the callback of instance i has returned with r, having started from s:
\* what it did to its own fields stays with instance i
unbindThis(s, i, r) ==
    IF i = s.serviceRef THEN r
    ELSE [withFields(r, fieldsOf(s)) EXCEPT
             !.serviceRef = s.serviceRef,
             !.retired[i] = fieldsOf(r)]

\* handleConnect() up to the first await inside connect()
handleConnect(s, cfg) ==
    LET s1 == [s EXCEPT !.connectionState = "CONNECTING"]
        s2 == IF s1.serviceRef # 0 THEN disconnect(s1) ELSE s1
        s3 == [s2 EXCEPT !.retired = IF s2.serviceRef # 0
                                     THEN Append(@, fieldsOf(s2)) ELSE @,
                         !.serviceRef = @ + 1]
    IN  connectStart(withFields(s3, newService), cfg)

\* handleMainButton(): a press of the main button
handleMainButton(s) ==
    IF s.connectionState # "CONNECTED" THEN s
    ELSE CASE s.callState = "IDLE" ->
                  [s EXCEPT !.callState = "DIALING",
                            !.dialTimers.pending = @ \cup
                                {[fn |-> "reset", press |-> s.dialTimers.seq],
                                 [fn |-> "startCall",
                                  press |-> s.dialTimers.seq]}]
           [] s.callState = "REPLY_READY" ->
                  setMicMuted([s EXCEPT !.callState = "USER_SPEAKING"],
                              FALSE)
           [] s.callState = "USER_SPEAKING" ->
                  setMicMuted([s EXCEPT !.callState = "REPLY_READY"], TRUE)
           [] OTHER -> endCall([s EXCEPT !.callState = "IDLE"])

\* the timeout of 1.5 s of handleMainButton: serviceRef.current?.startCall()
startCallTimeout(s, t) ==
    startCall([s EXCEPT !.dialTimers.pending = @ \ {t}])

\* the timeout of 6 s of handleMainButton: a call still dialing is given up
dialingTimeout(s, t) ==
    LET s1 == [s EXCEPT !.dialTimers.pending = @ \ {t}]
    IN  IF s1.callState = "DIALING" THEN [s1 EXCEPT !.callState = "IDLE"]
        ELSE s1

\* the station-ID interval callback
phraseTick(s) ==
    IF s.callState = "IDLE" /\ s.connectionState = "CONNECTED"
       /\ s.serviceRef # 0
    THEN sendText(s, "station id")
    ELSE s

----------------------------------------------------------------------------
\* Actions

\* every resource handle of the manager is null
HandlesNull ==
    /\ sessionPromise = NULL
    /\ inputAudioContext = NULL
    /\ outputAudioContext = NULL
    /\ mediaStream = NULL
    /\ processor = NULL
    /\ source = NULL
    /\ elClient = NULL

\* the application calls connect(); one attempt is outstanding at a time
Connect ==
    /\ CanSpend
    /\ connectPc = "idle"
    /\ \E cfg \in BOOLEAN :
          Commit(Op(Spend([connectStart(Cur, cfg) EXCEPT
                               !.disconnected = FALSE]), "connect", 0))

MicGranted ==
    /\ connectPc = "mic"
    /\ Commit(Op(micGranted(Cur), "micGranted", 0))

MicDenied ==
    /\ connectPc = "mic"
    /\ Commit(Op(micDenied(Cur), "micDenied", 0))

SessionOpen ==
    \E k \in PendingSessions :
        Commit(Op(sessionOpen(Cur, k), "sessionOpen", k))

SessionFail ==
    \E k \in PendingSessions :
        Commit(Op(sessionFail(Cur, k), "sessionFail", k))

\* the application connects: startTuning the first time, saveSettings while
\* connected
HandleConnect ==
    /\ CanSpend
    /\ connectPc = "idle"
    /\ \/ serviceRef = 0 /\ connectionState = "DISCONNECTED"
       \/ serviceRef # 0 /\ connectionState = "CONNECTED"
    /\ \E cfg \in BOOLEAN :
          Commit(Op(Spend([handleConnect(Cur, cfg) EXCEPT
                               !.disconnected = FALSE]),
                    "handleConnect", 0))

\* the 8-minute interval of setupLoops fires
PhraseTick ==
    /\ CanSpend
    /\ phraseInterval
    /\ Commit(Op(Spend(phraseTick(Cur)), "phraseTick", 0))

Disconnect ==
    /\ CanSpend
    /\ Commit(Op(Spend([disconnect(Cur) EXCEPT !.disconnected = TRUE]),
                 "disconnect", IF HandlesNull THEN 1 ELSE 0))

SetMicMuted ==
    /\ CanSpend
    /\ \E muted \in BOOLEAN :
          Commit(Op(Spend(setMicMuted(Cur, muted)), "setMicMuted",
                    IF muted THEN 1 ELSE 0))

SendText ==
    /\ CanSpend
    /\ Commit(Op(Spend(sendText(Cur, "hello")), "sendText", 0))

\* a frame is delivered to an installed onaudioprocess handler; a frame
\* the audio thread had queued is still delivered after the node was
\* disconnected
AudioProcess ==
    /\ CanSpend
    /\ \E k \in handlers, amp \in Amplitudes :
          Commit(Op(Spend(unbindThis(Cur, svcOf[k],
                              onaudioprocess(bindThis(Cur, svcOf[k]), amp))),
                    "frame", amp))

\* a message arrives on an open session
Receive(msg) ==
    /\ CanSpend
    /\ \E k \in OpenSessions :
          Commit([Spend(unbindThis(Cur, svcOf[k],
                            handleMessage(bindThis(Cur, svcOf[k]), msg)))
                    EXCEPT !.lastOp = [op |-> "message", arg |-> msg.audio,
                                       msg |-> msg]])

ReceiveSpeech == \E msg \in SpeechMsgs : Receive(msg)

ReceiveToolCalls == \E msg \in ToolMsgs : Receive(msg)

ReceiveFaultyCalls == \E msg \in FaultyMsgs : Receive(msg)

ToolComplete ==
    \E task \in toolTasks, outcome \in NewsOutcomes :
        Commit([unbindThis(Cur, task.svc,
                           toolDone(bindThis(Cur, task.svc), task, outcome))
                  EXCEPT !.lastOp = [op |-> "toolDone", arg |-> task.fc.id,
                                     outcome |-> outcome]])

\* streamText settles: with a buffer only while the client's context is
\* open (decodeAudioData), else with null
TtsComplete ==
    \E r \in ttsRequests, dur \in Durations :
        \E outcome \in IF r.client \in openOutputs THEN TtsOutcomes
                        ELSE TtsOutcomes \ {"ok"} :
            LET s == [Cur EXCEPT !.ttsRequests = @ \ {r}]
                buffer == streamText(outcome, dur)
                s1 == unbindThis(s, r.svc,
                                 ttsDone(bindThis(s, r.svc), buffer))
                s2 == IF s1.scheduled # s.scheduled
                      THEN [s1 EXCEPT !.spoken =
                                Append(@, [svc |-> r.svc, seq |-> r.seq])]
                      ELSE s1
            IN  Commit([s2 EXCEPT !.lastOp = [op |-> "ttsDone",
                                              arg |-> buffer,
                                              outcome |-> outcome]])

\* the "speaking stopped" timer fires, at or after its due time
DuckTimerFire ==
    \E t \in timeouts :
        /\ t.due <= now
        /\ LET s == [Cur EXCEPT !.timeouts = @ \ {t}]
           IN  Commit(Op(unbindThis(s, t.svc,
                             onSpeakerActivity(bindThis(s, t.svc), FALSE,
                                               "ai")),
                         "duckTimer", t.id))

\* time passes
Tick ==
    /\ CanSpend
    /\ \E t \in (now + 1)..MaxClock :
          Commit(Op(Spend([Cur EXCEPT !.now = t]), "tick", 0))

\* connect() and disconnect() and what settles a connect attempt
Lifecycle ==
    \/ Connect
    \/ MicGranted
    \/ MicDenied
    \/ SessionOpen
    \/ SessionFail
    \/ Disconnect

\* the session under speech traffic: audio chunks, transcript fragments,
\* the TTS bridge, the playback clock and the speaking-stopped timer
NextPlayback ==
    \/ Lifecycle
    \/ ReceiveSpeech
    \/ TtsComplete
    \/ DuckTimerFire
    \/ Tick

SpecPlayback == Init /\ [][NextPlayback]_vars

\* the session under tool calls, captured frames, mute and text turns
NextSession ==
    \/ Lifecycle
    \/ SetMicMuted
    \/ SendText
    \/ AudioProcess
    \/ ReceiveToolCalls
    \/ ToolComplete

SpecSession == Init /\ [][NextSession]_vars

\* tool calls alone, those whose handler throws included
NextTools ==
    \/ Lifecycle
    \/ ReceiveFaultyCalls
    \/ ToolComplete

SpecTools == Init /\ [][NextTools]_vars

\* the application: handleConnect, the interval, and speech traffic on
\* the sessions of the current and of replaced instances
NextApp ==
    \/ HandleConnect
    \/ MicGranted
    \/ MicDenied
    \/ SessionOpen
    \/ SessionFail
    \/ PhraseTick
    \/ ReceiveSpeech
    \/ TtsComplete
    \/ DuckTimerFire
    \/ Tick

SpecApp == Init /\ [][NextApp]_vars

\* how many times the main button is pressed
MaxPresses == 3

\* the main button is pressed
MainButton ==
    /\ dialTimers.seq < MaxPresses
    /\ Commit(Op(handleMainButton([Cur EXCEPT !.dialTimers.seq = @ + 1]),
                 "mainButton", 0))

\* a timeout of 1.5 s fires; the timeouts of one delay fire in the order
\* they were set
StartCallTimeout ==
    \E t \in dialTimers.pending :
        /\ t.fn = "startCall"
        /\ \A u \in dialTimers.pending :
               u.fn = "startCall" => u.press >= t.press
        /\ Commit(Op(startCallTimeout(Cur, t), "startCallTimeout", t.press))

\* a timeout of 6 s fires, after the timeout of 1.5 s of the same press
DialingTimeout ==
    \E t \in dialTimers.pending :
        /\ t.fn = "reset"
        /\ \A u \in dialTimers.pending :
               /\ u.fn = "reset" => u.press >= t.press
               /\ u.fn = "startCall" => u.press > t.press
        /\ Commit(Op(dialingTimeout(Cur, t), "dialingTimeout", t.press))

\* the call state machine of the application: the main button, its
\* timeouts, and the speech of the remote model
NextCall ==
    \/ HandleConnect
    \/ MicGranted
    \/ SessionOpen
    \/ MainButton
    \/ StartCallTimeout
    \/ DialingTimeout
    \/ ReceiveSpeech
    \/ DuckTimerFire
    \/ Tick

SpecCall == Init /\ [][NextCall]_vars

\* the volume slider and the ducking effect of the application
SetMasterVolume ==
    /\ CanSpend
    /\ \E vol \in Volumes :
          Commit(Op(Spend(logged(Cur, setMasterVolume(lofi, vol),
                                 "setMasterVolume", vol)),
                    "setMasterVolume", vol))

Duck ==
    /\ CanSpend
    /\ \E active \in BOOLEAN :
          Commit(Op(Spend(logged(Cur, duck(lofi, active), "duck",
                                 IF active THEN 1 ELSE 0)),
                    "duck", IF active THEN 1 ELSE 0))

\* the setMusicStyle tool, with what Math.random gives changeSong
SetMusicStyle ==
    /\ CanSpend
    /\ \E hint \in Hints, r \in RandomFloors :
          Commit([Spend([Cur EXCEPT !.lofi = setMusicStyle(@, hint, r)])
                    EXCEPT !.lastOp = [op |-> "setMusicStyle", arg |-> r,
                                       hint |-> hint]])

\* the master gain under volume changes and ducking
NextGain ==
    \/ SetMasterVolume
    \/ Duck

SpecGain == Init /\ [][NextGain]_vars

\* the synth under style changes, volume changes and ducking
NextSynth ==
    \/ SetMusicStyle
    \/ NextGain

SpecSynth == Init /\ [][NextSynth]_vars

\* a captured sample is encoded
CreatePcmBlob ==
    /\ pcm.stage = "idle"
    /\ \E n \in Samples :
          Commit(Op([Cur EXCEPT !.pcm = [stage |-> "encoded", sample |-> n,
                                         int16 |-> float32ToInt16(n),
                                         data |-> createPcmBlob(n),
                                         decoded |-> 0]],
                    "createPcmBlob", n))

\* the encoded sample is decoded again
DecodeAudioData ==
    /\ pcm.stage = "encoded"
    /\ Commit(Op([Cur EXCEPT !.pcm.stage = "decoded",
                             !.pcm.decoded = decodeAudioData(pcm.data)],
                 "decodeAudioData", pcm.int16))

\* the codec: a sample is encoded and decoded
NextCodec ==
    \/ CreatePcmBlob
    \/ DecodeAudioData

SpecCodec == Init /\ [][NextCodec]_vars

\* the minutes the remote model asks for: the declaration of the tool
\* says a number, and the handler takes what it is given
Minutes == {-1, 0, 1, 2, 5, 10, 25, 50, 60}

\* the arguments of a startTimer call: a number of minutes, or none
TimerArgs ==
    {[hasMinutes |-> TRUE, minutes |-> m] : m \in Minutes}
    \cup {[hasMinutes |-> FALSE, minutes |-> 0]}

\* onToolCall('startTimer', args)
ToolStartTimer ==
    /\ CanSpend
    /\ \E args \in TimerArgs :
          Commit([Spend([Cur EXCEPT !.timerState =
                             timerEffect(startTimer(@, args))])
                    EXCEPT !.lastOp =
                        [op |-> "startTimer", arg |-> args,
                         result |-> onToolCall([name |-> "startTimer"])]])

\* onToolCall('stopTimer') and the Pause button
ToolStopTimer ==
    /\ CanSpend
    /\ Commit(Op(Spend([Cur EXCEPT !.timerState =
                            timerEffect(stopTimer(@))]),
                 "stopTimer", 0))

\* the Resume button, shown on a paused timer
ResumeTimer ==
    /\ CanSpend
    /\ ~timerState.isActive
    /\ timerState.timeLeft < timerState.duration
    /\ Commit(Op(Spend([Cur EXCEPT !.timerState =
                            timerEffect([@ EXCEPT !.isActive = TRUE])]),
                 "resumeTimer", 0))

\* a second passes on a running timer
TimerSecond ==
    /\ CanSpend
    /\ counting(timerState)
    /\ Commit(Op(Spend([Cur EXCEPT !.timerState = timerSecond(@)]),
                 "timerSecond", 0))

\* the focus timer under tool calls, its buttons and its interval
NextTimer ==
    \/ ToolStartTimer
    \/ ToolStopTimer
    \/ ResumeTimer
    \/ TimerSecond

SpecTimer == Init /\ [][NextTimer]_vars

\* the transport of an open session reports an error
SessionError ==
    \E k \in OpenSessions :
        Commit(Op(sessionError(Cur, k), "sessionError", k))

\* a session opens and the capture graph cannot be built
SessionOpenNoAudio ==
    \E k \in PendingSessions :
        /\ inputAudioContext # NULL
        /\ mediaStream # NULL
        /\ sessionPromise # NULL
        /\ Commit(Op(sessionOpenNoAudio(Cur, k), "audioInputFailed", k))

\* the application connecting and reconnecting, with sessions that fail
\* to open, open without audio input, or fail after they opened
NextErrors ==
    \/ HandleConnect
    \/ MicGranted
    \/ MicDenied
    \/ SessionOpen
    \/ SessionFail
    \/ SessionOpenNoAudio
    \/ SessionError
    \/ PhraseTick

SpecErrors == Init /\ [][NextErrors]_vars

\* how far the clock of the music's audio context runs, in tenths of a
\* second
MaxSynthClock == 5

\* the application starts and stops the music
LofiStart ==
    /\ CanSpend
    /\ Commit(Op(Spend([Cur EXCEPT !.lofi = synthStart(@, now)]), "start",
                 IF lofi.isPlaying THEN 1 ELSE 0))

LofiStop ==
    /\ CanSpend
    /\ Commit(Op(Spend([Cur EXCEPT !.lofi = synthStop(@)]), "stop", 0))

\* a pending scheduler timer fires
LofiSchedulerTimer ==
    /\ CanSpend
    /\ \E id \in lofi.pending :
          Commit(Op(Spend([Cur EXCEPT !.lofi = schedulerTimer(@, id, now)]),
                    "schedulerTimer", id))

\* the style tool on the engine, one hint for each preset
LofiStyle ==
    /\ CanSpend
    /\ \E hint \in {HintRock, HintTechno, HintBanana} :
          Commit([Spend([Cur EXCEPT !.lofi = setMusicStyle(@, hint, 5)])
                    EXCEPT !.lastOp = [op |-> "setMusicStyle", arg |-> 5,
                                       hint |-> hint]])

\* the clock of the music's audio context runs on
SynthTick ==
    /\ CanSpend
    /\ \E t \in (now + 1)..MaxSynthClock :
          Commit(Op(Spend([Cur EXCEPT !.now = t]), "tick", 0))

\* the engine under start, stop, style changes, its timer and the clock
NextEngine ==
    \/ LofiStart
    \/ LofiStop
    \/ LofiSchedulerTimer
    \/ LofiStyle
    \/ SynthTick

SpecEngine == Init /\ [][NextEngine]_vars

\* the loops setExternalLoop is given
LoopBuffers == {1}

\* the bpm of the params of configure: none, below 30, a tempo
ConfigBpm == {0, 20, 120}

\* what Math.random gives changeSong and configure: the floor of the
\* transposition, and the bpm shift
SongDraws == {[r |-> 0, shift |-> -5], [r |-> 11, shift |-> 4]}

HybridStart ==
    /\ CanSpend
    /\ Commit(Op(Spend([Cur EXCEPT !.hybrid = hybridStart(@, now)]),
                 "hybridStart", 0))

HybridStop ==
    /\ CanSpend
    /\ Commit(Op(Spend([Cur EXCEPT !.hybrid = hybridStop(@)]),
                 "hybridStop", 0))

SetExternalLoop ==
    /\ CanSpend
    /\ \E b \in LoopBuffers :
          Commit(Op(Spend([Cur EXCEPT !.hybrid = setExternalLoop(@, b)]),
                    "setExternalLoop", b))

SwitchToInternalSynth ==
    /\ CanSpend
    /\ Commit(Op(Spend([Cur EXCEPT
                            !.hybrid = switchToInternalSynth(@, now)]),
                 "switchToInternalSynth", 0))

Configure ==
    /\ CanSpend
    /\ \E bpm \in ConfigBpm, d \in SongDraws :
          Commit(Op(Spend([Cur EXCEPT
                              !.hybrid = configure(@, bpm, d.r, now)]),
                    "configure", bpm))

HybridChangeSong ==
    /\ CanSpend
    /\ \E d \in SongDraws :
          Commit(Op(Spend([Cur EXCEPT
                              !.hybrid = hybridChangeSong(@, d.r, d.shift)]),
                    "changeSong", d.r))

\* a pending timer of the engine fires
HybridTimer ==
    /\ CanSpend
    /\ \E t \in hybrid.pending, d \in SongDraws :
          Commit(Op(Spend([Cur EXCEPT
                              !.hybrid = hybridTimer(@, t, d.r, d.shift,
                                                     now)]),
                    "hybridTimer", t.id))

\* the engine with the loop mode under its whole interface, its timers
\* and the clock
NextHybrid ==
    \/ HybridStart
    \/ HybridStop
    \/ SetExternalLoop
    \/ SwitchToInternalSynth
    \/ Configure
    \/ HybridChangeSong
    \/ HybridTimer
    \/ Tick

SpecHybrid == Init /\ [][NextHybrid]_vars

Next ==
    \/ NextCall
    \/ NextSynth
    \/ NextHybrid
    \/ NextEngine
    \/ NextErrors
    \/ NextTimer
    \/ NextCodec
    \/ NextPlayback
    \/ NextSession
    \/ NextTools
    \/ NextApp

Spec == Init /\ [][Next]_vars

----------------------------------------------------------------------------
\* Claims about the playback scheduler (SpecPlayback)

\* entries i and i+1 of the schedule were started on the same output context
SameContext(i) == scheduled[i].ctx = scheduled[i + 1].ctx

EndOf(i) == scheduled[i].start + scheduled[i].dur

\* no buffer starts before the buffer enqueued before it has finished
NoOverlap ==
    \A i \in 1..(Len(scheduled) - 1) :
        SameContext(i) => scheduled[i + 1].start >= EndOf(i)

\* C1: buffers are scheduled in call order without overlap (each start is at
\* or after the previous start plus the previous duration) and the cursor
\* nextStartTime never decreases.
C1_OrderedNoOverlap ==
    /\ []NoOverlap
    /\ [][nextStartTime' >= nextStartTime]_vars

\* two buffers follow one another on one context, the second one enqueued
\* after the clock had moved on
C1_Witness ==
    \E i \in 1..(Len(scheduled) - 1) :
        /\ SameContext(i)
        /\ scheduled[i + 1].at > scheduled[i].at
        /\ scheduled[i + 1].start >= EndOf(i)

\* C2: a buffer enqueued while the audio clock has not passed the cursor
\* starts exactly where the buffer before it ends.
C2_BackToBack ==
    \A i \in 1..(Len(scheduled) - 1) :
        (SameContext(i) /\ scheduled[i + 1].at <= EndOf(i))
            => scheduled[i + 1].start = EndOf(i)

\* three chunks of 0.2 s enqueued at one instant span exactly 0.6 s
C2_Witness ==
    /\ Len(scheduled) = 3
    /\ \A i \in 1..3 : scheduled[i].dur = 2 /\ scheduled[i].at = scheduled[1].at
    /\ SameContext(1) /\ SameContext(2)
    /\ EndOf(3) - scheduled[1].start = 6

\* C3: enqueue starts the buffer at max(audio clock, cursor) and leaves the
\* cursor at that start plus the duration; the start is never in the past.
C3_EnqueueContract ==
    [][Len(scheduled') = Len(scheduled) + 1 =>
          LET e == scheduled'[Len(scheduled')]
          IN  /\ e.start = Max(now - ctxOrigin, nextStartTime)
              /\ e.start >= e.at
              /\ e.at = now - ctxOrigin
              /\ nextStartTime' = e.start + e.dur]_vars

\* a buffer arrived after the clock had passed the cursor and starts at the
\* clock time of its arrival
C3_Witness ==
    \E i \in 1..(Len(scheduled) - 1) :
        /\ SameContext(i)
        /\ scheduled[i + 1].at > EndOf(i)
        /\ scheduled[i + 1].start = scheduled[i + 1].at

----------------------------------------------------------------------------
\* Claims about capture, tool calls and teardown (SpecSession)

ToolResults == {i \in 1..Len(sent) : sent[i].kind = "tool"}

\* the session handle names an open session
Connected == sessionPromise # NULL /\ sessions[sessionPromise] = "open"

\* C4: a frame processed while the mute flag is set is neither transmitted
\* nor kept for transmission, and the amplitude reported is 0; the manager
\* is muted from construction on.
C4_MuteGating ==
    /\ [](lastOp.op = "init" => isMicMuted)
    /\ [][(lastOp'.op = "frame" /\ isMicMuted) =>
             /\ sent' = sent
             /\ thenQueue' = thenQueue
             /\ amplitude' = 0]_vars

\* a loud frame was processed on a connected, muted manager
C4_Witness ==
    /\ lastOp.op = "frame" /\ lastOp.arg = 2
    /\ isMicMuted
    /\ Connected
    /\ amplitude = 0
    /\ sent = << >>

\* C5: every tool result transmitted carries the id and name of a call
\* that was received, no call id has two results, and a call whose handler
\* returned while the manager was connected has exactly one result.
C5_OneResultPerCall ==
    /\ \A i \in ToolResults :
           [id |-> sent[i].id, name |-> sent[i].name] \in received
    /\ \A i, j \in ToolResults : sent[i].id = sent[j].id => i = j
    /\ \A r \in returned :
           r.open => \E i \in ToolResults :
                         sent[i].id = r.id /\ sent[i].sess = r.handle

\* two calls of one message were answered, the second after its news lookup
C5_Witness ==
    /\ lastOp.op = "toolDone"
    /\ Cardinality({r \in returned : r.open}) = 2
    /\ Cardinality(ToolResults) = 2
    /\ \E i, j \in ToolResults : i < j /\ sent[j].name = "getNews"

\* C6: disconnect() leaves every resource handle null, and called on a
\* manager whose handles are all null already (a second call in a row, or
\* a manager that never connected) it changes nothing.
C6_DisconnectIdempotent ==
    [][lastOp'.op = "disconnect" =>
          /\ HandlesNull'
          /\ HandlesNull =>
                 UNCHANGED << inputAudioContext, outputAudioContext,
                              nextStartTime, mediaStream, processor, source,
                              sessionPromise, isMicMuted, duckingTimeout,
                              elConfig, elClient, transcriptBuffer,
                              connectPc, now, attempts, ctxOrigin, openInputs,
                              openOutputs, liveStreams, capturing, handlers,
                              sessions, thenQueue, timeouts, timerSeq,
                              scheduled, sent, toolTasks, ttsRequests, ttsSeq,
                              callSeq, received, invoked, amplitude,
                              callState, serviceRef, svcOf,
                              connectionState, chimeInterval,
                              phraseInterval, retired, threw, flushed, lofi,
                              gainLog, pcm, timerState, hybrid, spoken, dialTimers,
                              returned >>]_vars

\* disconnect() was called on a manager that had an open session and whose
\* handles were already null: the second call in a row
C6_Witness ==
    /\ lastOp.op = "disconnect" /\ lastOp.arg = 1
    /\ OpenSessions # {}
    /\ HandlesNull
    /\ capturing = {} /\ liveStreams = {} /\ openInputs = {}
    /\ openOutputs = {}

----------------------------------------------------------------------------
\* Claims about what remains after disconnect()

\* C7: after disconnect() nothing more is transmitted: no step taken while
\* the manager is disconnected adds to what was sent.
C7_SilentAfterDisconnect ==
    [][disconnected => sent' = sent]_vars

\* the part of C7 that the code keeps: a step taken while the session
\* handle is null and no connect() is in progress transmits nothing
C7_SilentWithoutHandle ==
    [][(sessionPromise = NULL /\ connectPc = "idle") => sent' = sent]_vars

\* C8: after disconnect() the speaking-stopped timer of the session is no
\* longer pending, so it never fires while the manager is disconnected.
C8_TimerCancelled ==
    [][disconnected => lastOp'.op # "duckTimer"]_vars

\* at most one capture loop, one live media stream, one pair of open audio
\* contexts and one open session exist
AtMostOne ==
    /\ Cardinality(capturing) <= 1
    /\ Cardinality(liveStreams) <= 1
    /\ Cardinality(openInputs) <= 1
    /\ Cardinality(openOutputs) <= 1
    /\ Cardinality(OpenSessions) <= 1

\* C9: connect() on a manager that has an open session tears the prior
\* session down: its capture loop, media stream and audio contexts are
\* released by the call, and at most one of each exists afterwards.
C9_ConnectReplacesSession ==
    [][(lastOp'.op = "connect" /\ Connected) =>
           /\ processor \notin capturing'
           /\ mediaStream \notin liveStreams'
           /\ inputAudioContext \notin openInputs'
           /\ outputAudioContext \notin openOutputs'
           /\ AtMostOne']_vars

----------------------------------------------------------------------------
\* Claims about the application (SpecApp)

\* C10: when microphone access is denied the connect attempt fails: the
\* application's connection state becomes ERROR, the session handle stays
\* null, no session is requested or opened, no capture loop starts, and no
\* further attempt is made from the ERROR state.
C10_MicDeniedIsFatal ==
    /\ [][lastOp'.op = "micDenied" =>
             /\ connectionState' = "ERROR"
             /\ connectPc' = "idle"
             /\ sessionPromise' = NULL
             /\ processor' = NULL
             /\ sessions' = sessions
             /\ capturing' = capturing
             /\ handlers' = handlers]_vars
    /\ [][connectionState = "ERROR" =>
             attempts' = attempts /\ connectPc' = "idle"]_vars

\* the microphone was denied to the instance that replaced a connected one
C10_Witness ==
    /\ lastOp.op = "micDenied"
    /\ connectionState = "ERROR"
    /\ serviceRef = 2
    /\ OpenSessions # {}

----------------------------------------------------------------------------
\* Claims about tool calls (SpecSession)

\* C11: tool calls are handled one after the other in the order received:
\* while the handler of a call has not completed, no call received after it
\* has had its handler invoked.
C11_SequentialHandlers ==
    \A task \in toolTasks :
        \A i \in 1..Len(invoked) : invoked[i].id <= task.fc.id

\* ids of the calls a suspended handleMessage still has to dispatch
Waiting ==
    UNION {{t.rest[i].id : i \in 1..Len(t.rest)} : t \in toolTasks}

\* ids of the calls whose handler returned a value
Returned == {r.id : r \in returned}

\* ids of the calls whose news lookup is in flight
InFlight == {t.fc.id : t \in toolTasks}

\* C12: a handler that throws is contained: no tool result carries the id
\* of a call that threw, every other call received is dispatched (it has
\* returned, is in flight, or waits behind a lookup of its own message) and
\* is answered if the session was open, and the step in which a handler
\* throws leaves the session and the capture loop as they were.
C12_ThrowIsContained ==
    /\ [](\A i \in ToolResults : sent[i].id \notin threw)
    /\ [](\A c \in received :
             c.id \in threw \cup Returned \cup InFlight \cup Waiting)
    /\ [](\A r \in returned :
             r.open => \E i \in ToolResults : sent[i].id = r.id)
    /\ [][threw' # threw =>
             /\ sessions' = sessions
             /\ sessionPromise' = sessionPromise
             /\ capturing' = capturing]_vars

\* the first call of a message threw, the second was answered, and so was
\* the first call of the message after it
C12_Witness ==
    /\ Connected
    /\ 1 \in threw
    /\ \E i, j \in ToolResults : sent[i].id = 2 /\ sent[j].id = 3

\* the calls received under the name getNews
NewsCalls == {c.id : c \in {x \in received : x.name = "getNews"}}

\* C13: a getNews call is never passed to the application callback, the
\* news lookup returns a text whatever generateContent does (the apology
\* when it rejects), and when a lookup settles its call has returned and
\* not thrown, and its result has been sent if the session is open.
C13_NewsAlwaysAnswered ==
    /\ [](\A i \in 1..Len(invoked) :
             invoked[i].by = "onToolCall" => invoked[i].id \notin NewsCalls)
    /\ [](/\ \A outcome \in NewsOutcomes : fetchNews(outcome) # "throw"
          /\ fetchNews("rejected") =
                 "I couldn't grab the news wire right now.")
    /\ [][lastOp'.op = "toolDone" =>
             /\ lastOp'.arg \in NewsCalls
             /\ lastOp'.arg \notin threw'
             /\ \E r \in returned' :
                    /\ r.id = lastOp'.arg
                    /\ r.open => \E i \in 1..Len(sent') :
                                     /\ sent'[i].kind = "tool"
                                     /\ sent'[i].id = r.id
                                     /\ sent'[i].name = "getNews"]_vars

\* a news lookup was rejected on a connected manager and the call was
\* answered all the same
C13_Witness ==
    /\ lastOp.op = "toolDone"
    /\ lastOp.outcome = "rejected"
    /\ Connected
    /\ \E i \in ToolResults : sent[i].id = lastOp.arg

----------------------------------------------------------------------------
\* Claims about the TTS bridge (SpecPlayback)

\* C14: streamText gives null for every request that fails, and the step
\* in which a request settles without a good, decodable response enqueues
\* no buffer, leaves the playback cursor and the pending timer alone, and
\* leaves the session as it was.
C14_NullIsSilence ==
    /\ [](\A outcome \in TtsOutcomes \ {"ok"}, dur \in Durations :
             streamText(outcome, dur) = 0)
    /\ [][(lastOp'.op = "ttsDone" /\ lastOp'.outcome # "ok") =>
             /\ lastOp'.arg = 0
             /\ scheduled' = scheduled
             /\ nextStartTime' = nextStartTime
             /\ timeouts' = timeouts
             /\ sessions' = sessions
             /\ sessionPromise' = sessionPromise]_vars

\* a sentence was lost to a response that was not OK while a buffer
\* synthesized before it is scheduled, on a connected manager
C14_Witness ==
    /\ lastOp.op = "ttsDone"
    /\ lastOp.outcome = "notOk"
    /\ Connected
    /\ Len(scheduled) = 1

\* the last character of str that is not white space is '.', '!' or '?'
EndsSentence(str) ==
    LET inked == SelectSeq(str, LAMBDA c : c # " ")
    IN  inked # << >> /\ inked[Len(inked)] \in {".", "!", "?"}

\* the manager is in bridge mode
BridgeMode == elConfig /\ elClient # NULL

\* C15: in bridge mode a message's fragment is appended to the buffer and
\* the buffer is handed to the bridge and emptied exactly when it then ends
\* a sentence; an end-of-turn marker hands over and empties a buffer that
\* is not empty; nothing else is handed over. So the buffer never ends a
\* sentence, and it is empty after an end-of-turn marker.
C15_FlushAtSentenceEnd ==
    /\ [](~EndsSentence(transcriptBuffer))
    /\ [][(lastOp'.op = "message" /\ BridgeMode) =>
             LET m == lastOp'.msg
                 appended == transcriptBuffer \o m.text
                 first == m.text # << >> /\ EndsSentence(appended)
                 kept == IF first THEN << >> ELSE appended
                 second == m.turnComplete /\ kept # << >>
             IN  /\ flushed' = flushed
                                \o (IF first THEN << appended >> ELSE << >>)
                                \o (IF second THEN << kept >> ELSE << >>)
                 /\ transcriptBuffer' = IF second THEN << >> ELSE kept
                 /\ m.turnComplete => transcriptBuffer' = << >>]_vars

\* a fragment that ends in '?' and a blank completed the buffered text,
\* which was handed to the bridge as one sentence
C15_Witness ==
    /\ lastOp.op = "message"
    /\ lastOp.msg.text = << "?", " " >>
    /\ flushed = << << "a", "?", " " >> >>
    /\ transcriptBuffer = << >>

\* C16: while a bridge is configured no message enqueues a buffer, whatever
\* audio it carries, and a buffer is enqueued only when a synthesis
\* request settles; without a bridge a message hands no text to a bridge
\* and buffers none, and its audio chunk is enqueued as the next buffer
\* of the output context.
C16_BridgeSuppressesNative ==
    /\ [][(lastOp'.op = "message" /\ elConfig) =>
             scheduled' = scheduled]_vars
    /\ [][(elConfig /\ scheduled' # scheduled) =>
             lastOp'.op = "ttsDone"]_vars
    /\ [][(lastOp'.op = "message" /\ ~elConfig) =>
             /\ flushed' = flushed
             /\ ttsRequests' = ttsRequests
             /\ transcriptBuffer' = transcriptBuffer
             /\ (lastOp'.msg.audio # 0 /\ outputAudioContext # NULL) =>
                    /\ Len(scheduled') = Len(scheduled) + 1
                    /\ scheduled'[Len(scheduled')].dur = lastOp'.msg.audio
                    /\ scheduled'[Len(scheduled')].ctx = outputAudioContext
             /\ lastOp'.msg.audio = 0 => scheduled' = scheduled]_vars

\* an audio chunk arrived on a connected manager in bridge mode and
\* nothing is scheduled
C16_Witness ==
    /\ lastOp.op = "message"
    /\ lastOp.msg.audio # 0
    /\ Connected
    /\ BridgeMode
    /\ scheduled = << >>

----------------------------------------------------------------------------
\* Claims about the speaking signals (SpecPlayback)

\* the wall-clock time at which the buffer enqueued last stops playing
LastEnd ==
    LET e == scheduled[Len(scheduled)]
    IN  e.wall + (e.start + e.dur - e.at)

\* C17: an enqueue signals 'speaking started' and leaves exactly one
\* 'speaking stopped' timer pending, the one it armed, due 100 ms after the
\* end of the buffer it enqueued; at most one such timer is ever pending,
\* and when it fires the last scheduled buffer has ended and no timer
\* remains.
C17_OneStopTimer ==
    /\ [](Cardinality(timeouts) <= 1)
    /\ [](\A t \in timeouts :
             scheduled # << >> /\ t.due = LastEnd + DuckSlack)
    /\ [][scheduled' # scheduled =>
             /\ callState' = "AI_SPEAKING"
             /\ \E t \in timeouts' :
                    t.id = duckingTimeout' /\ t.id = timerSeq + 1]_vars
    /\ [][lastOp'.op = "duckTimer" =>
             now >= LastEnd + DuckSlack /\ timeouts' = {}]_vars

\* a second chunk followed the first at once; the time at which the timer
\* of the first would have fired has passed and speaking has not stopped
C17_Witness ==
    /\ Len(scheduled) = 2
    /\ timerSeq = 2
    /\ Cardinality(timeouts) = 1
    /\ now >= scheduled[1].wall + scheduled[1].dur + DuckSlack
    /\ now < LastEnd
    /\ callState = "AI_SPEAKING"

----------------------------------------------------------------------------
\* Claims about the master gain of the LoFiSynth (SpecGain)

\* calls i..j-1 of the log are all duck(true)
AllDuckTrue(i, j) ==
    \A k \in i..(j - 1) : gainLog[k].op = "duck" /\ gainLog[k].arg = 1

\* C18: a duck call that repeats the call before it leaves the gain target
\* as it was and starts no ramp, and duck(false) after one or more
\* duck(true) brings the gain target back to what it was before the first
\* of them.
C18_DuckIdempotent ==
    /\ \A i \in 2..Len(gainLog) :
           (/\ gainLog[i].op = "duck"
            /\ gainLog[i - 1].op = "duck"
            /\ gainLog[i].arg = gainLog[i - 1].arg)
           => /\ gainLog[i].target = gainLog[i - 1].target
              /\ gainLog[i].ramps = gainLog[i - 1].ramps
    /\ \A i \in 2..Len(gainLog) : \A j \in (i + 1)..Len(gainLog) :
           (/\ ~gainLog[i - 1].ducked
            /\ AllDuckTrue(i, j)
            /\ gainLog[j].op = "duck"
            /\ gainLog[j].arg = 0)
           => gainLog[j].target = gainLog[i - 1].target

\* the volume was set to 0.35, then duck(true) twice and duck(false)
C18_Witness ==
    /\ Len(gainLog) = 5
    /\ gainLog[2].op = "setMasterVolume" /\ gainLog[2].arg = 35
    /\ AllDuckTrue(3, 5)
    /\ gainLog[5].op = "duck" /\ gainLog[5].arg = 0
    /\ gainLog[4].target < gainLog[5].target

\* C19: the gain target is 0.3 x userVolume x (0.2 if ducked, else 1), the
\* user volume is the last argument of setMasterVolume clamped into [0,1],
\* setMasterVolume leaves the duck flag alone and duck leaves the user
\* volume alone.
C19_GainIsProduct ==
    /\ [](/\ lofi.userVolume \in 0..100
          /\ lofi.gainTarget =
                 3 * lofi.userVolume * (IF lofi.isDucking THEN 2 ELSE 10))
    /\ [][lastOp'.op = "setMasterVolume" =>
             /\ lofi'.isDucking = lofi.isDucking
             /\ lofi'.userVolume =
                    (CASE lastOp'.arg < 0 -> 0
                       [] lastOp'.arg > 100 -> 100
                       [] OTHER -> lastOp'.arg)]_vars
    /\ [][lastOp'.op = "duck" =>
             /\ lofi'.userVolume = lofi.userVolume
             /\ lofi'.isDucking = (lastOp'.arg = 1)]_vars

\* ducked at a volume that was asked above the range: 0.3 x 1 x 0.2
C19_Witness ==
    /\ lastOp.op = "setMasterVolume"
    /\ lastOp.arg = 150
    /\ lofi.isDucking
    /\ lofi.gainTarget = 600

----------------------------------------------------------------------------
\* Claims about the style of the LoFiSynth (SpecSynth)

Presets == {"lofi", "rock", "techno", "classical", "ambient"}

\* the preset each hint stands for
Expected(hint) ==
    CASE hint \in {HintRock, HintRockTechno} -> "rock"
      [] hint \in {HintHouse, HintTechno} -> "techno"
      [] hint \in {HintClassicalPiano, HintPianoFocus} -> "classical"
      [] hint \in {HintAmbient, HintDeepFocus} -> "ambient"
      [] OTHER -> "lofi"

\* C20: the style is always one of the five presets, and setMusicStyle
\* sets it to rock for a text with 'rock', else to techno for 'techno' or
\* 'house', else to classical for 'classical' or 'piano', else to ambient
\* for 'ambient' or 'focus', else to lofi, whatever the case of the
\* letters.
C20_StyleIsPreset ==
    /\ [](lofi.style \in Presets)
    /\ [][lastOp'.op = "setMusicStyle" =>
             lofi'.style = Expected(lastOp'.hint)]_vars

\* "hard ROCK techno" names two presets and rock was taken
C20_Witness ==
    /\ lastOp.op = "setMusicStyle"
    /\ lastOp.hint = HintRockTechno
    /\ lofi.style = "rock"

----------------------------------------------------------------------------
\* Claims about the PCM codec (SpecCodec)

\* |a|
Abs(a) == IF a < 0 THEN -a ELSE a

\* C24: for every sample s in [-1, 1] the decoded sample is within
\* 1/32768 of s.  With s = sample / Grid and the decoded sample
\* decoded / 32768, both sides are multiplied by Grid.
C24_RoundTrip ==
    (pcm.stage = "decoded" /\ Abs(pcm.sample) <= Grid) =>
        Abs(pcm.decoded * (Grid \div 32768) - pcm.sample)
            <= Grid \div 32768

\* C25: every encoded value lies in [-32768, 32767]; a sample >= 1
\* encodes to 32767 and a sample <= -1 to -32768, and between them the
\* encoding keeps the sign of the sample.
C25_Clipping ==
    pcm.stage # "idle" =>
        /\ pcm.int16 \in -32768..32767
        /\ pcm.sample >= Grid => pcm.int16 = 32767
        /\ pcm.sample <= -Grid => pcm.int16 = -32768
        /\ pcm.sample >= 0 => pcm.int16 >= 0
        /\ pcm.sample <= 0 => pcm.int16 <= 0
        /\ int16Of(pcm.data) = pcm.int16

\* the sample 2.0 was encoded to 32767
C25_Witness ==
    /\ pcm.stage = "encoded"
    /\ pcm.sample = 2 * Grid
    /\ pcm.int16 = 32767

----------------------------------------------------------------------------
\* Claims about the key of the LoFiSynth (SpecSynth)

\* C26: the transposition is within -5..5 semitones in every reachable
\* state.
C26_TransposeWithinFive == lofi.transposeSteps \in -5..5

----------------------------------------------------------------------------
\* Claims about the focus timer (SpecTimer)

----------------------------------------------------------------------------
\* Claims about errors of the session (SpecErrors)

\* C28: when the session of the current manager reports a transport
\* error, or its audio input fails to start on open, the connection state
\* the application shows is ERROR afterwards.
C28_ErrorResetsState ==
    [][(/\ lastOp'.op \in {"sessionError", "audioInputFailed"}
        /\ lastOp'.arg = attempts
        /\ svcOf[attempts] = serviceRef)
          => connectionState' = "ERROR"]_vars

----------------------------------------------------------------------------
\* Claims about the state of a session across reconnects (SpecPlayback)

\* C29: when connect() is called after disconnect() on the same manager,
\* the playback cursor is 0, the transcript buffer is empty and no
\* speaking-stopped timer is held.
C29_FreshSessionState ==
    [][(lastOp'.op = "connect" /\ disconnected) =>
          /\ nextStartTime' = 0
          /\ transcriptBuffer' = << >>
          /\ duckingTimeout' = NULL]_vars

----------------------------------------------------------------------------
\* Claims about muting (SpecSession)

\* the message a transmission to the current session appends to the log
SentNow(kind, name) ==
    [sess |-> sessionPromise, kind |-> kind, id |-> 0, name |-> name]

\* C30: setMicMuted changes the mute flag and nothing else, but the
\* amplitude, which is 0 after muting; a tool-call message that arrives
\* while muted is handled (its calls are taken) and leaves the manager
\* muted; a frame captured on a connected manager right after
\* setMicMuted(false) is transmitted to the session that was open before;
\* and sendText is transmitted while muted.
C30_MuteIsClientSide ==
    /\ [][lastOp'.op = "setMicMuted" =>
             /\ isMicMuted' = (lastOp'.arg = 1)
             /\ amplitude' = IF lastOp'.arg = 1 THEN 0 ELSE amplitude
             /\ UNCHANGED << inputAudioContext, outputAudioContext,
                             nextStartTime, mediaStream, processor, source,
                             sessionPromise, duckingTimeout, elConfig,
                             elClient, transcriptBuffer, connectPc, now,
                             attempts, ctxOrigin, openInputs, openOutputs,
                             liveStreams, capturing, handlers, sessions,
                             thenQueue, timeouts, timerSeq, scheduled, sent,
                             toolTasks, ttsRequests, ttsSeq, callSeq,
                             received, invoked, callState, serviceRef,
                             svcOf, connectionState, chimeInterval,
                             phraseInterval, retired, threw, flushed, lofi,
                             gainLog, pcm, timerState, disconnected,
                             returned >>]_vars
    /\ [][(lastOp'.op = "message" /\ isMicMuted) =>
             /\ callSeq' = callSeq + Len(lastOp'.msg.calls)
             /\ lastOp'.msg.calls # << >> => received' # received
             /\ isMicMuted']_vars
    /\ [][(/\ lastOp = [op |-> "setMicMuted", arg |-> 0]
           /\ lastOp'.op = "frame"
           /\ Connected)
             => /\ sent' = Append(sent, SentNow("media", "pcm"))
                /\ UNCHANGED << sessionPromise, attempts, sessions >>]_vars
    /\ [][(lastOp'.op = "sendText" /\ isMicMuted /\ Connected)
             => sent' = Append(sent, SentNow("text", "hello"))]_vars

\* on the first session, muted, then unmuted: the frame that follows was
\* transmitted to it
C30_Witness ==
    /\ lastOp.op = "frame"
    /\ ~isMicMuted
    /\ Connected /\ attempts = 1
    /\ sent # << >>
    /\ sent[Len(sent)] = SentNow("media", "pcm")
    /\ events = 4

----------------------------------------------------------------------------
\* Claims about start() and stop() of the LoFiSynth (SpecEngine)

\* C21: after stop() no scheduler timer is pending and no ambience source
\* is playing, and while the engine is stopped no note is scheduled by
\* anything but the next start().
C21_StopHaltsEverything ==
    /\ [][lastOp'.op = "stop" =>
             /\ ~lofi'.isPlaying
             /\ lofi'.pending = {}
             /\ lofi'.vinyl = 0]_vars
    /\ [][(~lofi.isPlaying /\ lastOp'.op # "start") =>
             lofi'.notes = lofi.notes]_vars

\* C22: start() on an engine that is playing changes nothing: the cursor,
\* the pending scheduler timers, the ambience sources and the notes
\* scheduled stay as they are.
C22_StartWhilePlaying ==
    [][(lastOp'.op = "start" /\ lofi.isPlaying) => lofi' = lofi]_vars

\* start() was called on an engine playing since an earlier time, with
\* one scheduler timer pending and one ambience source
C22_Witness ==
    /\ lastOp = [op |-> "start", arg |-> 1]
    /\ lofi.isPlaying
    /\ now > 0 /\ lofi.nextNoteTime > 0
    /\ Cardinality(lofi.pending) = 1
    /\ lofi.vinyl = 1

----------------------------------------------------------------------------
\* Claims about the two modes of the LoFiSynth (SpecHybrid)

\* C23: an external loop source playing and a scheduler or auto-change
\* timer pending never occur together; setExternalLoop leaves no timer
\* pending, and switchToInternalSynth and configure leave no loop source
\* playing.
C23_ModesExclusive ==
    /\ [](~(hybrid.loops # {} /\ hybrid.pending # {}))
    /\ [][lastOp'.op = "setExternalLoop" => hybrid'.pending = {}]_vars
    /\ [][lastOp'.op \in {"switchToInternalSynth", "configure"} =>
             hybrid'.loops = {}]_vars

----------------------------------------------------------------------------
\* the times the notes a step has added were given, first to last, chain
\* from the cursor c by the note duration d
Chained(old, new, c, d) ==
    /\ Len(new) >= Len(old)
    /\ SubSeq(new, 1, Len(old)) = old
    /\ \A i \in (Len(old) + 1)..Len(new) :
          new[i] = c + (i - Len(old) - 1) * d

----------------------------------------------------------------------------
\* C36: while the engine is playing, the master gain target is
\* baseVolume x userVolume x the duck factor (so after stop() and start()
\* the music is back at the user's volume).
C36_GainWhilePlaying ==
    lofi.isPlaying =>
        lofi.gainTarget =
            baseVolume * lofi.userVolume * duckFactor(lofi.isDucking)

----------------------------------------------------------------------------
\* the scheduler poll timers of the engine that are pending
SchedulerTimers == {t \in hybrid.pending : t.fn = "scheduler"}

\* C37: at most one scheduler poll timer of the engine is pending, and
\* none while the engine is stopped.
C37_OneSchedulerTimer ==
    /\ Cardinality(SchedulerTimers) <= 1
    /\ ~hybrid.isPlaying => SchedulerTimers = {}

----------------------------------------------------------------------------
\* C40: an active timer has 0 <= timeLeft <= duration and counts down, one
\* a second, as long as it is active; a timer at 0 is inactive; a
\* stopTimer call clears isActive and leaves timeLeft and duration as
\* they were.
C40_TimerCountsDown ==
    /\ [](timerState.isActive =>
             /\ 0 <= timerState.timeLeft
             /\ timerState.timeLeft <= timerState.duration)
    /\ [](timerState.isActive => ENABLED TimerSecond \/ ~CanSpend)
    /\ [][lastOp'.op = "timerSecond" =>
             timerState'.timeLeft = timerState.timeLeft - 1]_vars
    /\ [][lastOp'.op = "stopTimer" =>
             timerState' = [timerState EXCEPT !.isActive = FALSE]]_vars

----------------------------------------------------------------------------
\* C32: the sentences of a manager are given to playBuffer in the order
\* in which they were flushed from the transcript buffer (the order of
\* their streamText requests).
C32_EnqueuedInFlushOrder ==
    \A i, j \in 1..Len(spoken) :
        (i < j /\ spoken[i].svc = spoken[j].svc) =>
            spoken[i].seq < spoken[j].seq

----------------------------------------------------------------------------
\* a buffer scheduled on the manager's output context has not finished
\* playing
StillPlaying ==
    /\ outputAudioContext # NULL
    /\ outputAudioContext \in openOutputs
    /\ \E i \in 1..Len(scheduled) :
          /\ scheduled[i].ctx = outputAudioContext
          /\ now - ctxOrigin < EndOf(i)

\* C33: 'speaking stopped' is not signalled, and so the call state is not
\* REPLY_READY, while a scheduled buffer has not finished playing.
C33_NoStopWhilePlaying == callState = "REPLY_READY" => ~StillPlaying

----------------------------------------------------------------------------
\* C34: a message that arrives while the manager is disconnected changes
\* nothing for the application: no tool handler is invoked (the timer is
\* as it was), no speaker-activity callback is made (call state and mute
\* flag are as they were) and no audio is scheduled.
C34_DeafAfterDisconnect ==
    [][(disconnected /\ lastOp'.op = "message") =>
          /\ invoked' = invoked
          /\ timerState' = timerState
          /\ toolTasks' = toolTasks
          /\ callState' = callState
          /\ isMicMuted' = isMicMuted
          /\ scheduled' = scheduled
          /\ ttsRequests' = ttsRequests]_vars

----------------------------------------------------------------------------
\* C35: once disconnect() was called and the connect() it interrupted has
\* settled, the manager holds no media stream, no audio context and no
\* session handle, and runs no capture loop.
C35_DisconnectDuringConnect ==
    (disconnected /\ connectPc = "idle") =>
        /\ mediaStream = NULL
        /\ inputAudioContext = NULL
        /\ outputAudioContext = NULL
        /\ sessionPromise = NULL
        /\ processor = NULL /\ source = NULL

----------------------------------------------------------------------------
\* C39: whenever the call state is IDLE the microphone is muted.
C39_IdleIsMuted == callState = "IDLE" => isMicMuted

----------------------------------------------------------------------------
\* the texts of a sequence, one after the other
RECURSIVE Flat(_)
Flat(texts) ==
    IF texts = << >> THEN << >> ELSE Head(texts) \o Flat(Tail(texts))

\* the text the manager has taken in: what it flushed, then what it
\* buffers
TakenIn == Flat(flushed) \o transcriptBuffer

\* C38: a message in bridge mode adds its transcript fragment to the end of
\* the text flushed and buffered so far, and no other step changes that
\* text: the sentences flushed, in order, followed by the buffer are the
\* fragments received, in order.
C38_TextConserved ==
    [][TakenIn' = TakenIn \o (IF lastOp'.op = "message" /\ BridgeMode
                              THEN lastOp'.msg.text ELSE << >>)]_vars

\* two fragments went out as one sentence and a third is buffered
C38_Witness ==
    /\ BridgeMode
    /\ flushed = << << "a", "a", "." >> >>
    /\ transcriptBuffer = << "a" >>

============================================================================
